---- MODULE Spec2Model ----
(***************************************************************************)
(* A model of the token aggregation service:                               *)
(*   - APIClient (lib/apiClients.ts): the per-provider rate limiter        *)
(*     (checkRateLimit) and retryWithBackoff, as used by                   *)
(*     fetchFromDexScreener / fetchFromGeckoTerminal;                      *)
(*   - TokenAggregationService (lib/tokenAggregation.ts) with its          *)
(*     in-process memoryCache and CacheService (lib/cacheService.ts) over  *)
(*     the Redis store.                                                    *)
(*                                                                         *)
(* Node runs one callback at a time, so an action is the code that runs    *)
(* between two awaits.  Time is discrete: one tick is TickMs milliseconds, *)
(* and every timestamp is kept as the number of ticks left until it is     *)
(* reached (0: reached or passed).                                         *)
(***************************************************************************)
EXTENDS Integers, Sequences, FiniteSets, TLC

\* ------------------------------------------------------------------------
\* Program constants (APIClient)
\* ------------------------------------------------------------------------
PerMinute == 60000

MaxRetries == 5

BaseDelay == 2000

MaxDelay == 30000

\* Program constants (TokenAggregationService)
MemoryCacheTtl == 30000

ChunkSize == 2

\* the expiry, in seconds, given to every setEx
RedisTtl == 300

\* ------------------------------------------------------------------------
\* Bounds of the model
\* ------------------------------------------------------------------------
\* RATE_LIMIT.dexScreener.maxRequests, scaled down from 250
DexMaxRequests == 2

\* RATE_LIMIT.geckoTerminal.maxRequests, scaled down from 25
GeckoMaxRequests == 1

\* number of fetch calls followed through checkRateLimit
NCalls == 3

\* TokenAggregationService's memory cache limit, scaled down from 100 entries
MemoryCacheLimit == 2

\* ticks a Redis key lives, scaled down from Ticks(RedisTtl * 1000) = 10; it
\* stays longer than the memory cache's one tick
RedisTtlTicks == 2

\* number of requests made to the aggregation service, in any interleaving
NTasks == 2

\* one tick of model time is the longest backoff base, 30 s
TickMs == MaxDelay

\* retryWithBackoff's lastError while undefined
NoError == [status |-> -1, attempt |-> -1, retryAfter |-> <<>>]

\* a call that has neither returned nor thrown
Pending == [kind |-> "pending"]

Providers == {"dexScreener", "geckoTerminal"}

Calls == 1..NCalls

\* the one fetch call followed through retryWithBackoff
RetryCalls == {1}

\* Math.random() * 1000, the two ends of [0, 1000)
JitterMs == {0, 999}

\* HTTP status of a failed attempt; 0 stands for "no response" (network error)
ErrorStatuses == {0, 400, 404, 429, 499, 500, 503}

\* A retry-after header as the server sends it: a string of decimal digits,
\* or no header at all (<<>>, which is undefined in the code and falsy)
RetryAfterHeaders == {<<>>, <<0>>, <<3, 0>>, <<6, 0>>}

VARIABLES
    \* RATE_LIMIT[service]
    requestCount,   \* limiter.requestCount
    resetIn,        \* ticks until limiter.resetTime (0: now >= resetTime)
    \* observation of the limiter: the 60 s window that began at the last
    \* reset made at or after a window boundary
    winLeft,        \* ticks left in that window
    winCount,       \* calls that passed checkRateLimit in that window
    winSent,        \* HTTP requests sent in that window
    \* one fetchFromDexScreener / fetchFromGeckoTerminal call
    pc,             \* where the call stands
    prov,           \* its provider
    attempt,        \* retryWithBackoff's loop variable
    sleepLeft,      \* ticks until the pending sleep() timer may fire
    lastError,      \* retryWithBackoff's lastError
    caught,         \* the error of the catch block that is running
    outcome,        \* what the call returned or threw
    \* observation of one call
    sent,           \* HTTP requests it has sent
    checks,         \* times it passed the check-and-increment
    waitedMs,       \* milliseconds of sleep asked for since the last failure
    blocked,        \* whether checkRateLimit made it sleep
    blockedLeft,    \* ticks left until the resetTime seen when it blocked
    \* TokenAggregationService and CacheService
    memoryCache,    \* the Map, as its entries in insertion order
    redisToken,     \* Redis keys token:<address>: <<>> or <<the stored value>>
    redisAll,       \* Redis key aggregated:all: <<>> or <<the stored list>>
    redisTtl,       \* ticks each Redis key has left to live (0: no such key)
    task,           \* the requests in progress, with their local variables
    \* one call of mergeTokenData
    mergeArgs,      \* its arguments
    mergeResult,    \* <<>> or <<the record it returned>>
    \* the clock
    now,            \* Date.now(), counted in instants of the model
    \* SchedulerService, and what it calls
    isRunning,      \* scheduler.isRunning
    updateTask,     \* scheduler.updateTask: <<>> (null) or <<the cron expression>>
    cronTasks,      \* the tasks cron.schedule has made that were not stopped
    defaultTTL,     \* cacheService.defaultTTL, in seconds
    io,             \* webSocketService.io !== null
    updates,        \* the calls of performUpdate, with their position
    \* WebSocketService
    connectedClients,   \* the Set of socket ids
    rooms,              \* the token ids whose room each socket has joined
    initialData,        \* where sendInitialData stands, for each socket
    previousTokenData,  \* the Map: <<>> or <<the record>> for each token id
    emitted             \* the events of the last call that emitted, in order

limiterVars == <<requestCount, resetIn, winLeft, winCount, winSent>>

callVars == <<pc, prov, attempt, sleepLeft, lastError, caught, outcome, sent, checks,
              waitedMs, blocked, blockedLeft>>

clientVars == <<limiterVars, callVars>>

cacheVars == <<memoryCache, redisToken, redisAll, redisTtl>>

aggVars == <<cacheVars, task>>

mergeVars == <<mergeArgs, mergeResult>>

\* what neither the API client nor the aggregation service writes
schedVars == <<isRunning, updateTask, cronTasks, defaultTTL, io, updates>>

wsVars == <<connectedClients, rooms, initialData, previousTokenData, emitted>>

otherVars == <<mergeVars, now, schedVars, wsVars>>

vars == <<clientVars, aggVars, otherVars>>

\* ------------------------------------------------------------------------
\* Helpers
\* ------------------------------------------------------------------------
Ticks(ms) == ms \div TickMs

Window == Ticks(PerMinute)

Dec(n) == IF n > 0 THEN n - 1 ELSE 0

RECURSIVE Pow2(_)
Pow2(n) == IF n = 0 THEN 1 ELSE 2 * Pow2(n - 1)

Min(a, b) == IF a < b THEN a ELSE b

MaxRequests(p) == IF p = "dexScreener" THEN DexMaxRequests ELSE GeckoMaxRequests

\* ------------------------------------------------------------------------
\* APIClient.checkRateLimit
\* ------------------------------------------------------------------------
\* now >= limiter.resetTime
WindowPassed(p) == resetIn[p] = 0

\* the test of the limit off by one: one call too many passes
LimitReachedOffByOne(count, p) == count > MaxRequests(p)

\* limiter.requestCount >= limiter.maxRequests, on the count after the reset
LimitReached(count, p) == count >= MaxRequests(p)

\* a blocked caller that does not sleep at all
WaitTimeNone(untilReset) == 0

\* waitTime = limiter.resetTime - now, in ticks
WaitTime(untilReset) == untilReset

\* the state of call c as one record
CallState(c) ==
    [pc |-> pc[c], attempt |-> attempt[c], sleepLeft |-> sleepLeft[c],
     lastError |-> lastError[c], caught |-> caught[c], outcome |-> outcome[c],
     sent |-> sent[c], checks |-> checks[c], waitedMs |-> waitedMs[c],
     blocked |-> blocked[c], blockedLeft |-> blockedLeft[c]]

SetCall(c, s) ==
    /\ pc' = [pc EXCEPT ![c] = s.pc]
    /\ attempt' = [attempt EXCEPT ![c] = s.attempt]
    /\ sleepLeft' = [sleepLeft EXCEPT ![c] = s.sleepLeft]
    /\ lastError' = [lastError EXCEPT ![c] = s.lastError]
    /\ caught' = [caught EXCEPT ![c] = s.caught]
    /\ outcome' = [outcome EXCEPT ![c] = s.outcome]
    /\ sent' = [sent EXCEPT ![c] = s.sent]
    /\ checks' = [checks EXCEPT ![c] = s.checks]
    /\ waitedMs' = [waitedMs EXCEPT ![c] = s.waitedMs]
    /\ blocked' = [blocked EXCEPT ![c] = s.blocked]
    /\ blockedLeft' = [blockedLeft EXCEPT ![c] = s.blockedLeft]

\* limiter.requestCount++ and the return of checkRateLimit: the caller goes on
\* to retryWithBackoff, whose first iteration sends the request
Dispatch(s) ==
    [s EXCEPT !.pc = "inflight", !.attempt = 0, !.sent = @ + 1, !.checks = @ + 1]

\* A request sent to p counts in the observed window while the window lasts
CountInWindow(n, p, left) == IF left > 0 THEN n + 1 ELSE n

\* fetchFromDexScreener / fetchFromGeckoTerminal up to the first await that
\* suspends: checkRateLimit, which either sleeps or increments and returns
FetchStart(c, p) ==
    /\ pc[c] = "idle"
    /\ prov' = [prov EXCEPT ![c] = p]
    /\ LET passed == WindowPassed(p)
           count == IF passed THEN 0 ELSE requestCount[p]
           untilReset == IF passed THEN Window ELSE resetIn[p]
           wLeft == IF passed THEN Window ELSE winLeft[p]
           wCount == IF passed THEN 0 ELSE winCount[p]
           wSent == IF passed THEN 0 ELSE winSent[p]
       IN  /\ resetIn' = [resetIn EXCEPT ![p] = untilReset]
           /\ winLeft' = [winLeft EXCEPT ![p] = wLeft]
           /\ IF LimitReached(count, p)
              THEN /\ requestCount' = [requestCount EXCEPT ![p] = count]
                   /\ winCount' = [winCount EXCEPT ![p] = wCount]
                   /\ winSent' = [winSent EXCEPT ![p] = wSent]
                   /\ SetCall(c, [CallState(c) EXCEPT
                                    !.pc = "rateWait",
                                    !.sleepLeft = WaitTime(untilReset),
                                    !.blocked = TRUE,
                                    !.blockedLeft = untilReset])
              ELSE /\ requestCount' = [requestCount EXCEPT ![p] = count + 1]
                   /\ winCount' = [winCount EXCEPT ![p] = CountInWindow(wCount, p, wLeft)]
                   /\ winSent' = [winSent EXCEPT ![p] = CountInWindow(wSent, p, wLeft)]
                   /\ SetCall(c, Dispatch(CallState(c)))

\* checkRateLimit after its sleep: requestCount = 0, resetTime = Date.now() +
\* perMinute, requestCount++.  The reset opens a new window only when the old
\* one has ended; another caller may have reset it already.
RateWake(c) ==
    /\ pc[c] = "rateWait"
    /\ sleepLeft[c] = 0
    /\ LET p == prov[c]
           passed == WindowPassed(p)
           wLeft == IF passed THEN Window ELSE winLeft[p]
           wCount == IF passed THEN 0 ELSE winCount[p]
           wSent == IF passed THEN 0 ELSE winSent[p]
       IN  /\ requestCount' = [requestCount EXCEPT ![p] = 0 + 1]
           /\ resetIn' = [resetIn EXCEPT ![p] = Window]
           /\ winLeft' = [winLeft EXCEPT ![p] = wLeft]
           /\ winCount' = [winCount EXCEPT ![p] = CountInWindow(wCount, p, wLeft)]
           /\ winSent' = [winSent EXCEPT ![p] = CountInWindow(wSent, p, wLeft)]
    /\ SetCall(c, Dispatch(CallState(c)))
    /\ UNCHANGED prov

\* One tick of time passes: every deadline comes one tick closer
Tick ==
    /\ resetIn' = [p \in Providers |-> Dec(resetIn[p])]
    /\ winLeft' = [p \in Providers |-> Dec(winLeft[p])]
    /\ sleepLeft' = [c \in Calls |-> Dec(sleepLeft[c])]
    /\ blockedLeft' = [c \in Calls |-> Dec(blockedLeft[c])]
    /\ UNCHANGED <<requestCount, winCount, winSent, pc, prov, attempt, lastError,
                   caught, outcome, sent, checks, waitedMs, blocked>>

\* ------------------------------------------------------------------------
\* APIClient.retryWithBackoff
\* ------------------------------------------------------------------------
RECURSIVE ParseInt(_)
\* parseInt of a string of decimal digits
ParseInt(digits) ==
    IF digits = <<>> THEN 0
    ELSE 10 * ParseInt(SubSeq(digits, 1, Len(digits) - 1)) + digits[Len(digits)]

\* retryAfter ? parseInt(retryAfter) * 1000 : config.maxDelay
\* (a missing header is undefined; any non-empty string is truthy)
RateLimitWaitMs(header) ==
    IF header # <<>> THEN ParseInt(header) * 1000 ELSE MaxDelay

\* calculateBackoffDelay: min(baseDelay * 2^retryCount, maxDelay) + jitter
BackoffDelays(retryCount) ==
    {Min(BaseDelay * Pow2(retryCount), MaxDelay) + j : j \in JitterMs}

\* the 4xx test with its lower end excluded: a 400 is retried
NonRetryableAbove400(status) == status > 400 /\ status < 500 /\ status # 429

\* status >= 400 && status < 500 && status !== 429 (no response: no status)
NonRetryable(status) == status >= 400 /\ status < 500 /\ status # 429

\* if (attempt < config.maxRetries) sleep(delay)
ShouldBackoff(a) == a < MaxRetries

\* the loop running one iteration too many
LoopContinuesOneMore(a) == a <= MaxRetries + 1

\* for (...; attempt <= config.maxRetries; ...)
LoopContinues(a) == a <= MaxRetries

\* lastError kept from the first failure instead of the latest
RecordFirstError(previous, error) == IF previous = NoError THEN error ELSE previous

\* lastError = error as Error
RecordError(previous, error) == error

Thrown(error) == [kind |-> "error", error |-> error]

Returned(a) == [kind |-> "value", attempt |-> a]

\* attempt++ and the loop test; the next iteration calls operation(), which
\* sends the request; after the loop, throw lastError
ContinueLoop(s) ==
    LET a == s.attempt + 1
    IN  IF LoopContinues(a)
        THEN [s EXCEPT !.pc = "inflight", !.attempt = a, !.sent = @ + 1,
                       !.caught = NoError]
        ELSE [s EXCEPT !.pc = "failed", !.attempt = a, !.caught = NoError,
                       !.outcome = Thrown(s.lastError)]

\* The catch block from "Don't retry on 4xx errors" to its end
AfterCatch(s) ==
    IF NonRetryable(s.caught.status)
    THEN {[s EXCEPT !.pc = "failed", !.caught = NoError, !.outcome = Thrown(s.caught)]}
    ELSE IF ShouldBackoff(s.attempt)
    THEN {[s EXCEPT !.pc = "sleepBackoff", !.sleepLeft = Ticks(d),
                    !.waitedMs = @ + d] : d \in BackoffDelays(s.attempt)}
    ELSE {ContinueLoop(s)}

\* What a step of call c does to the limiter: nothing but the observation of
\* the requests it sends
SendObserved(c, s) ==
    /\ winSent' = [winSent EXCEPT ![prov[c]] =
                      IF s.sent > sent[c]
                      THEN CountInWindow(@, prov[c], winLeft[prov[c]]) ELSE @]
    /\ UNCHANGED <<requestCount, resetIn, winLeft, winCount, prov>>

\* return await operation(): the request succeeds
AttemptSucceeds(c) ==
    /\ pc[c] = "inflight"
    /\ LET s == [CallState(c) EXCEPT !.pc = "returned",
                                     !.outcome = Returned(attempt[c])]
       IN  SetCall(c, s) /\ SendObserved(c, s)

\* operation() throws: the catch block up to its first await, or to its end
AttemptFails(c, status, header) ==
    /\ pc[c] = "inflight"
    /\ LET error == [status |-> status, attempt |-> attempt[c], retryAfter |-> header]
           s1 == [CallState(c) EXCEPT !.lastError = RecordError(@, error),
                                      !.caught = error, !.waitedMs = 0]
       IN  IF status = 429
           THEN LET w == RateLimitWaitMs(header)
                    s == [s1 EXCEPT !.pc = "sleep429", !.sleepLeft = Ticks(w),
                                    !.waitedMs = w]
                IN  SetCall(c, s) /\ SendObserved(c, s)
           ELSE \E s \in AfterCatch(s1) : SetCall(c, s) /\ SendObserved(c, s)

\* the sleep of the 429 branch is over: the catch block goes on
Wake429(c) ==
    /\ pc[c] = "sleep429"
    /\ sleepLeft[c] = 0
    /\ \E s \in AfterCatch(CallState(c)) : SetCall(c, s) /\ SendObserved(c, s)

\* the backoff sleep is over: next iteration of the loop
WakeBackoff(c) ==
    /\ pc[c] = "sleepBackoff"
    /\ sleepLeft[c] = 0
    /\ LET s == ContinueLoop(CallState(c))
       IN  SetCall(c, s) /\ SendObserved(c, s)

\* ------------------------------------------------------------------------
\* CSV metadata (CSVParser)
\* ------------------------------------------------------------------------
\* tokenAddress column of the loaded CSV, in load order
CsvTokens == <<"Aa", "Bb", "Cc">>

\* addresses that requests for one token name: a token of the CSV, the same
\* token in another letter case, and an address that is not in the CSV
TokenRequests == {"Aa", "aa", "Zz"}

CacheKeys == {CsvTokens[i] : i \in 1..Len(CsvTokens)} \cup TokenRequests

\* getCacheKey('aggregated', 'all')
AggregatedKey == "aggregated:all"

RedisKeys == CacheKeys \cup {AggregatedKey}

\* String.prototype.toLowerCase
Lower(address) ==
    CASE address \in {"Aa", "aa"} -> "aa"
      [] address \in {"Bb", "bb"} -> "bb"
      [] address \in {"Cc", "cc"} -> "cc"
      [] address \in {"Zz", "zz"} -> "zz"

\* this.tokens.has(address.toLowerCase())
InCsv(address) ==
    \E i \in 1..Len(CsvTokens) : Lower(CsvTokens[i]) = Lower(address)

Metadata(address) == [tokenAddress |-> address]

\* getToken without the lookup: every address has metadata
CsvGetTokenAny(address) == <<Metadata(address)>>

\* CSVParser.getToken: <<>> is undefined
CsvGetToken(address) ==
    IF InCsv(address)
    THEN <<Metadata(CsvTokens[CHOOSE i \in 1..Len(CsvTokens) :
                                 Lower(CsvTokens[i]) = Lower(address)])>>
    ELSE <<>>

\* ------------------------------------------------------------------------
\* Provider data and mergeTokenData
\* ------------------------------------------------------------------------
\* what the two fetches of one token can settle to: the pairs array of
\* DexScreener (empty, or pairs) and the GeckoTerminal document; <<>> stands
\* for a rejected fetch where the caller substitutes [] or null
\* a field of a provider document is <<>> when it is missing or null and
\* <<n>> when it holds the number n or its decimal string
DexPair == [priceUsd |-> <<2>>, volume |-> [h1 |-> <<2>>, h6 |-> <<4>>, h24 |-> <<6>>]]

\* data.attributes and included[0] (the pool, <<>> when nothing is included)
GeckoToken ==
    [price_usd |-> <<4>>,
     volume_usd |-> [h24 |-> <<10>>],
     total_reserve_in_usd |-> <<8>>,
     pool |-> <<[volume_usd |-> [h1 |-> <<4>>, h6 |-> <<8>>]]>>]

\* the first CSV token is listed by both providers, the second by DexScreener
\* alone, the third by GeckoTerminal alone, and DexScreener also lists the
\* address that is not in the CSV; any fetch may come back empty
DexResults(address) ==
    IF Lower(address) \in {"aa", "bb", "zz"} THEN {<<>>, <<DexPair>>} ELSE {<<>>}

GeckoResults(address) ==
    IF Lower(address) \in {"aa", "cc"} THEN {<<>>, <<GeckoToken>>} ELSE {<<>>}

\* new Date(): the clock's instant, as a Date object
NewDate == [type |-> "Date", ms |-> now]

\* parseFloat(x) || 0, x || 0, parseFloat(x || '0')
OrZero(field) == IF field = <<>> THEN 0 ELSE field[1]

NormalizeDexScreenerData(pair, metadata) ==
    [tokenId |-> metadata.tokenAddress,
     priceUsd |-> OrZero(pair.priceUsd),
     volume |-> [h1 |-> OrZero(pair.volume.h1),
                 h6 |-> OrZero(pair.volume.h6),
                 h24 |-> OrZero(pair.volume.h24)],
     liquidity |-> 0,
     sources |-> <<"dexscreener">>,
     lastUpdated |-> NewDate]

\* GeckoTerminal's data under the other provider's name
NormalizeGeckoTerminalDataAsDex(data, metadata) ==
    [tokenId |-> metadata.tokenAddress,
     priceUsd |-> OrZero(data.price_usd),
     volume |-> [h1 |-> IF data.pool # <<>> THEN OrZero(data.pool[1].volume_usd.h1) ELSE 0,
                 h6 |-> IF data.pool # <<>> THEN OrZero(data.pool[1].volume_usd.h6) ELSE 0,
                 h24 |-> OrZero(data.volume_usd.h24)],
     liquidity |-> OrZero(data.total_reserve_in_usd),
     sources |-> <<"dexscreener">>,
     lastUpdated |-> NewDate]

NormalizeGeckoTerminalData(data, metadata) ==
    [tokenId |-> metadata.tokenAddress,
     priceUsd |-> OrZero(data.price_usd),
     volume |-> [h1 |-> IF data.pool # <<>> THEN OrZero(data.pool[1].volume_usd.h1) ELSE 0,
                 h6 |-> IF data.pool # <<>> THEN OrZero(data.pool[1].volume_usd.h6) ELSE 0,
                 h24 |-> OrZero(data.volume_usd.h24)],
     liquidity |-> OrZero(data.total_reserve_in_usd),
     sources |-> <<"geckoterminal">>,
     lastUpdated |-> NewDate]

\* a reduce that keeps the later of two pairs of equal volume
RECURSIVE BestPairFromLast(_, _, _)
BestPairFromLast(pairs, i, prev) ==
    IF i > Len(pairs) THEN prev
    ELSE BestPairFromLast(pairs, i + 1,
            IF OrZero(pairs[i].volume.h24) >= OrZero(prev.volume.h24)
            THEN pairs[i] ELSE prev)

\* dexScreenerPairs.reduce: a later pair wins only with a strictly larger h24
RECURSIVE BestPairFrom(_, _, _)
BestPairFrom(pairs, i, prev) ==
    IF i > Len(pairs) THEN prev
    ELSE BestPairFrom(pairs, i + 1,
            IF OrZero(pairs[i].volume.h24) > OrZero(prev.volume.h24)
            THEN pairs[i] ELSE prev)

BestPair(pairs) == BestPairFrom(pairs, 2, pairs[1])

\* the first value kept instead of the average
MeanIsFirst(a, b) == a

\* (a + b) / 2; the provider values of the model are even
Mean(a, b) == (a + b) \div 2

MergeTokenData(dexScreenerPairs, geckoTerminalData, metadata) ==
    LET mergedData == [tokenId |-> metadata.tokenAddress,
                       priceUsd |-> 0,
                       volume |-> [h1 |-> 0, h6 |-> 0, h24 |-> 0],
                       liquidity |-> 0,
                       sources |-> <<>>,
                       lastUpdated |-> NewDate]
        withDex == IF Len(dexScreenerPairs) > 0
                   THEN NormalizeDexScreenerData(BestPair(dexScreenerPairs), metadata)
                   ELSE mergedData
    IN  IF geckoTerminalData = <<>> THEN withDex
        ELSE LET geckoData == NormalizeGeckoTerminalData(geckoTerminalData[1], metadata)
             IN  IF Len(withDex.sources) > 0
                 THEN [withDex EXCEPT
                          !.priceUsd = Mean(@, geckoData.priceUsd),
                          !.volume = [h1 |-> Mean(@.h1, geckoData.volume.h1),
                                      h6 |-> Mean(@.h6, geckoData.volume.h6),
                                      h24 |-> Mean(@.h24, geckoData.volume.h24)],
                          !.liquidity = geckoData.liquidity,
                          !.sources = Append(@, "geckoterminal")]
                 ELSE geckoData

\* the test on sources left out: every merged record is kept
HasSourcesAlways(tokenData) == TRUE

\* tokenData.sources && tokenData.sources.length > 0
HasSources(tokenData) == Len(tokenData.sources) > 0

\* ------------------------------------------------------------------------
\* CacheService: values pass through JSON.stringify and JSON.parse
\* ------------------------------------------------------------------------
\* a Date comes back as its ISO string, and a string as it was; numbers and
\* arrays as they were
JsonRoundTrip(data) == [data EXCEPT !.lastUpdated = [type |-> "string", ms |-> @.ms]]

JsonRoundTripList(list) == [i \in 1..Len(list) |-> JsonRoundTrip(list[i])]

\* ------------------------------------------------------------------------
\* TokenAggregationService: memory cache
\* ------------------------------------------------------------------------
MemoryHas(cache, address) == \E i \in 1..Len(cache) : cache[i].key = address

MemoryEntry(cache, address) ==
    cache[CHOOSE i \in 1..Len(cache) : cache[i].key = address]

MemoryDelete(cache, address) == SelectSeq(cache, LAMBDA e : e.key # address)

\* Date.now() - cached.timestamp < MEMORY_CACHE_TTL
MemoryFresh(entry) == entry.ttlLeft > 0

\* a memory cache that never answers
GetFromMemoryCacheNever(cache, address) == <<>>

\* the value getFromMemoryCache returns; <<>> is null
GetFromMemoryCache(cache, address) ==
    IF MemoryHas(cache, address) /\ MemoryFresh(MemoryEntry(cache, address))
    THEN <<MemoryEntry(cache, address).data>>
    ELSE <<>>

\* the map getFromMemoryCache leaves: an expired entry is deleted
CleanExpired(cache, address) ==
    IF MemoryHas(cache, address) /\ ~MemoryFresh(MemoryEntry(cache, address))
    THEN MemoryDelete(cache, address)
    ELSE cache

\* Map.set: an existing key keeps its place in the iteration order
MemorySet(cache, address, data) ==
    LET entry == [key |-> address, data |-> data, ttlLeft |-> Ticks(MemoryCacheTtl)]
    IN  IF MemoryHas(cache, address)
        THEN [i \in 1..Len(cache) |->
                 IF cache[i].key = address THEN entry ELSE cache[i]]
        ELSE Append(cache, entry)

\* the entry inserted last before this one is the one given up
SetMemoryCacheEvictLatest(cache, address, data) ==
    LET set == MemorySet(cache, address, data)
    IN  IF Len(set) > MemoryCacheLimit
        THEN Append(SubSeq(set, 1, Len(set) - 2), set[Len(set)])
        ELSE set

\* Map.set, then the first key of the iteration order is deleted when the
\* size has passed the limit
SetMemoryCache(cache, address, data) ==
    LET set == MemorySet(cache, address, data)
    IN  IF Len(set) > MemoryCacheLimit THEN Tail(set) ELSE set

\* ------------------------------------------------------------------------
\* TokenAggregationService: requests.  Each action is the code that runs
\* between two awaits; a Redis command either takes effect or throws inside
\* CacheService, which logs the error and answers null or nothing.
\* ------------------------------------------------------------------------
Tasks == 1..NTasks

\* the requests that may be for all tokens; the others are for one token or
\* clear the cache
BulkTasks == {1}

TokenOps == {"aggregateToken", "refreshToken"}

IdleTask ==
    [op |-> "none", addr |-> "", pc |-> "idle",
     results |-> <<>>, uncached |-> <<>>, idx |-> 0, chunk |-> 0,
     raw |-> <<>>, pending |-> {}, pos |-> 0, data |-> <<>>,
     keys |-> {}, aggregatedKeys |-> FALSE, ret |-> <<>>]

\* ------------------------------------------------------------------------
\* WebSocketService
\* ------------------------------------------------------------------------
\* the sockets that connect
Sockets == {"s1", "s2"}

\* the token ids of the batches
BatchTokenIds == {"Aa", "Bb"}

\* a TokenData, with the fields broadcastPriceUpdates reads
BatchToken(id, price, volume) ==
    [tokenId |-> id, priceUsd |-> price, volume |-> [h24 |-> volume]]

\* the prices and 24 h volumes of the records: every quotient that an event
\* carries is a whole number, so the integer division below is exact
BatchVolumes == {0, 4, 6}

\* the first token varies in price and volume, the second in price only and
\* down to the price 0 of a record without a price
RecordsOf(id) ==
    IF id = "Aa"
    THEN {BatchToken(id, p, v) : p \in {2, 4}, v \in BatchVolumes}
    ELSE {BatchToken(id, p, 4) : p \in {0, 2}}

\* the lists broadcastPriceUpdates is called with: one record per address
Batches ==
    {<<>>}
    \cup {<<r>> : r \in RecordsOf("Aa") \cup RecordsOf("Bb")}
    \cup {<<a, b>> : a \in RecordsOf("Aa"), b \in RecordsOf("Bb")}

\* the service as constructed
NoSockets ==
    /\ connectedClients = {}
    /\ rooms = [s \in Sockets |-> {}]
    /\ initialData = [s \in Sockets |-> "none"]
    /\ previousTokenData = [id \in BatchTokenIds |-> <<>>]
    /\ emitted = <<>>

\* a room that every connected socket is in
RoomOfAll(id) == connectedClients

\* the connected sockets that are in the room token:<id>
Room(id) == {s \in connectedClients : id \in rooms[s]}

\* io.on('connection'): the socket is counted and sendInitialData is called,
\* which awaits aggregateAllTokens
Connect(s) ==
    /\ s \notin connectedClients
    /\ initialData[s] = "none"
    /\ connectedClients' = connectedClients \cup {s}
    /\ initialData' = [initialData EXCEPT ![s] = "aggregateAllTokens"]
    /\ UNCHANGED <<rooms, previousTokenData, emitted>>

\* sendInitialData after its await: socket.emit('initial_data')
InitialDataSent(s, tokens) ==
    /\ initialData[s] = "aggregateAllTokens"
    /\ initialData' = [initialData EXCEPT ![s] = "none"]
    /\ emitted' = <<[event |-> "initial_data", to |-> <<"socket", s>>,
                     data |-> tokens]>>
    /\ UNCHANGED <<connectedClients, rooms, previousTokenData>>

\* socket.on('subscribe'): the socket joins the rooms of the token ids
Subscribe(s, tokenIds) ==
    /\ s \in connectedClients
    /\ rooms' = [rooms EXCEPT ![s] = @ \cup tokenIds]
    /\ UNCHANGED <<connectedClients, initialData, previousTokenData, emitted>>

\* socket.on('unsubscribe'): the socket leaves the rooms of the token ids
Unsubscribe(s, tokenIds) ==
    /\ s \in connectedClients
    /\ rooms' = [rooms EXCEPT ![s] = @ \ tokenIds]
    /\ UNCHANGED <<connectedClients, initialData, previousTokenData, emitted>>

\* socket.on('disconnect'): the socket is no longer counted; a socket that
\* disconnects is in no room any more
Disconnect(s) ==
    /\ s \in connectedClients
    /\ connectedClients' = connectedClients \ {s}
    /\ rooms' = [rooms EXCEPT ![s] = {}]
    /\ UNCHANGED <<initialData, previousTokenData, emitted>>

\* every price taken for a changed price
PriceAlwaysDiffers(previous, token) == TRUE

\* previous.priceUsd !== token.priceUsd
PriceDiffers(previous, token) == previous.priceUsd # token.priceUsd

\* ((token.priceUsd - previous.priceUsd) / previous.priceUsd) * 100: Infinity
\* when the previous price is 0 (the prices differ, so the new one is > 0)
PriceChange(previous, token) ==
    IF previous.priceUsd = 0
    THEN [finite |-> FALSE, value |-> 0]
    ELSE [finite |-> TRUE,
          value |-> ((token.priceUsd - previous.priceUsd) * 100)
                        \div previous.priceUsd]

\* previous.volume.h24 || 1
SpikeDivisor(previous) ==
    IF previous.volume.h24 = 0 THEN 1 ELSE previous.volume.h24

\* token.volume.h24 > 0, and volumeIncrease >= VOLUME_SPIKE_THRESHOLD with
\* volumeIncrease = token.volume.h24 / (previous.volume.h24 || 1) and a
\* threshold of 1.5
IsVolumeSpike(previous, token) ==
    /\ token.volume.h24 > 0
    /\ 2 * token.volume.h24 >= 3 * SpikeDivisor(previous)

\* (volumeIncrease - 1) * 100
PercentageIncrease(previous, token) ==
    ((token.volume.h24 - SpikeDivisor(previous)) * 100) \div SpikeDivisor(previous)

\* the entry pushed to updates
PriceUpdateOf(previous, token) ==
    [tokenId |-> token.tokenId,
     priceUsd |-> token.priceUsd,
     priceChange |-> PriceChange(previous, token),
     volume |-> token.volume.h24]

\* the entry pushed to volumeSpikes
VolumeSpikeOf(previous, token) ==
    [tokenId |-> token.tokenId,
     volume |-> token.volume.h24,
     previousVolume |-> previous.volume.h24,
     percentageIncrease |-> PercentageIncrease(previous, token)]

\* the sockets an event goes to at the time it is emitted: the socket of
\* socket.emit, the room of io.to(room).emit, every connected socket for
\* io.emit
Receivers(e) ==
    IF e.to[1] = "socket" THEN {e.to[2]} \cap connectedClients
    ELSE IF e.to[1] = "token" THEN Room(e.to[2])
    ELSE connectedClients

\* this.io.to(`token:${tokenId}`).emit(event, {data})
EmitToRoom(event, tokenId, data) ==
    [event |-> event, to |-> <<"token", tokenId>>, data |-> data]

\* this.io.emit(event, {...})
EmitToAll(event, data) ==
    [event |-> event, to |-> <<"all">>, data |-> data]

\* no heartbeat at the end
NoHeartbeat(tokens) == <<>>

\* the heartbeat that ends a broadcast
Heartbeat(tokens) ==
    <<EmitToAll("heartbeat", [tokenCount |-> Len(tokens),
                              clientCount |-> Cardinality(connectedClients)])>>

\* the for loop of broadcastPriceUpdates from its i-th token on
RECURSIVE BroadcastLoop(_, _, _)
BroadcastLoop(tokens, i, acc) ==
    IF i > Len(tokens)
    THEN acc
    ELSE LET token == tokens[i]
             previous == acc.previousTokenData[token.tokenId]
             priceUpdate ==
                 IF previous # <<>> /\ PriceDiffers(previous[1], token)
                 THEN <<PriceUpdateOf(previous[1], token)>>
                 ELSE <<>>
             volumeSpike ==
                 IF previous # <<>> /\ IsVolumeSpike(previous[1], token)
                 THEN <<VolumeSpikeOf(previous[1], token)>>
                 ELSE <<>>
             priceEvent ==
                 IF priceUpdate # <<>>
                 THEN <<EmitToRoom("price_update", token.tokenId, priceUpdate[1])>>
                 ELSE <<>>
             spikeEvent ==
                 IF volumeSpike # <<>>
                 THEN <<EmitToRoom("volume_spike", token.tokenId, volumeSpike[1])>>
                 ELSE <<>>
         IN  BroadcastLoop(tokens, i + 1,
                 [previousTokenData |->
                      [acc.previousTokenData EXCEPT ![token.tokenId] = <<token>>],
                  emitted |-> acc.emitted \o priceEvent \o spikeEvent,
                  updates |-> acc.updates \o priceUpdate,
                  volumeSpikes |-> acc.volumeSpikes \o volumeSpike])

\* broadcastPriceUpdates(tokens): nothing without a server or without a
\* connected client; else the loop, the two aggregate events and the
\* heartbeat. It has no await: it runs in one piece.
BroadcastPriceUpdates(tokens) ==
    /\ IF ~io \/ connectedClients = {}
       THEN /\ emitted' = <<>>
            /\ UNCHANGED previousTokenData
       ELSE LET done == BroadcastLoop(tokens, 1,
                            [previousTokenData |-> previousTokenData,
                             emitted |-> <<>>,
                             updates |-> <<>>,
                             volumeSpikes |-> <<>>])
            IN  /\ previousTokenData' = done.previousTokenData
                /\ emitted' =
                      done.emitted
                      \o (IF Len(done.updates) > 0
                          THEN <<EmitToAll("price_updates", done.updates)>>
                          ELSE <<>>)
                      \o (IF Len(done.volumeSpikes) > 0
                          THEN <<EmitToAll("volume_spikes", done.volumeSpikes)>>
                          ELSE <<>>)
                      \o Heartbeat(tokens)
    /\ UNCHANGED <<connectedClients, rooms, initialData>>

\* a step that is the call broadcastPriceUpdates(tokens): the Map ends with
\* the records of the batch, which is looked at first
BroadcastOf(tokens) ==
    /\ \/ connectedClients = {}
       \/ \A i \in 1..Len(tokens) :
             previousTokenData'[tokens[i].tokenId] = <<tokens[i]>>
    /\ BroadcastPriceUpdates(tokens)

\* ------------------------------------------------------------------------
\* SchedulerService
\* ------------------------------------------------------------------------
\* const cacheTTL = 300
CacheTtl == 300

\* the intervals start() is called with, in seconds
Intervals == {30, 60, 90}

\* number of performUpdate calls followed at a time
MaxUpdates == 2

UpdateIds == 1..MaxUpdates

NoUpdate == [origin |-> "none", pc |-> "none", tokens |-> <<>>, caught |-> FALSE]

\* the scheduler and the cache service as constructed, and the WebSocket
\* server initialised: index.ts initialises it before it starts the scheduler
\* and before the HTTP server listens
SchedulerStopped ==
    /\ isRunning = FALSE
    /\ updateTask = <<>>
    /\ cronTasks = 0
    /\ defaultTTL = 300
    /\ io = TRUE
    /\ updates = [u \in UpdateIds |-> NoUpdate]

\* the interval taken for the cache TTL
CacheTtlFromInterval(intervalSeconds) == intervalSeconds

\* the cache TTL start() sets
CacheTtlOfStart(intervalSeconds) == CacheTtl

\* getCronExpression: every so many minutes from 60 s on, else every so many
\* seconds
GetCronExpression(seconds) ==
    IF seconds >= 60
    THEN [every |-> seconds \div 60, field |-> "minute"]
    ELSE [every |-> seconds, field |-> "second"]

\* a call of performUpdate that is not followed yet
FreeUpdate == CHOOSE u \in UpdateIds : updates[u].pc = "none"

HasFreeUpdate == \E u \in UpdateIds : updates[u].pc = "none"

\* performUpdate up to its await of aggregateAllTokens
PerformUpdate(origin) ==
    updates' = [updates EXCEPT ![FreeUpdate] =
                   [origin |-> origin, pc |-> "aggregateAllTokens",
                    tokens |-> <<>>, caught |-> FALSE]]

\* start(): nothing when running; else the TTL, the cron task, the flag and
\* the initial update, which is not awaited
Start(intervalSeconds) ==
    /\ IF isRunning
       THEN UNCHANGED <<isRunning, updateTask, cronTasks, defaultTTL, updates>>
       ELSE /\ HasFreeUpdate
            /\ defaultTTL' = CacheTtlOfStart(intervalSeconds)
            /\ updateTask' = <<GetCronExpression(intervalSeconds)>>
            /\ cronTasks' = cronTasks + 1
            /\ isRunning' = TRUE
            /\ PerformUpdate("initial")
    /\ UNCHANGED io

\* a stop() that clears the flag and leaves the task running
StopLeavesTask ==
    /\ IF updateTask # <<>>
       THEN /\ isRunning' = FALSE
            /\ UNCHANGED <<updateTask, cronTasks>>
       ELSE UNCHANGED <<isRunning, updateTask, cronTasks>>
    /\ UNCHANGED <<defaultTTL, io, updates>>

\* stop(): the task is stopped and forgotten, if there is one
Stop ==
    /\ IF updateTask # <<>>
       THEN /\ updateTask' = <<>>
            /\ cronTasks' = cronTasks - 1
            /\ isRunning' = FALSE
       ELSE UNCHANGED <<isRunning, updateTask, cronTasks>>
    /\ UNCHANGED <<defaultTTL, io, updates>>

\* restart(): stop(), then start(), which returns at once if the flag is
\* still set
Restart(intervalSeconds) ==
    LET stopped == updateTask # <<>>
        running == IF stopped THEN FALSE ELSE isRunning
        left == IF stopped THEN cronTasks - 1 ELSE cronTasks
    IN  /\ IF running
           THEN UNCHANGED <<isRunning, updateTask, cronTasks, defaultTTL, updates>>
           ELSE /\ HasFreeUpdate
                /\ defaultTTL' = CacheTtlOfStart(intervalSeconds)
                /\ updateTask' = <<GetCronExpression(intervalSeconds)>>
                /\ cronTasks' = left + 1
                /\ isRunning' = TRUE
                /\ PerformUpdate("initial")
        /\ UNCHANGED io

\* the cron task fires: its callback calls performUpdate
TimerFires ==
    /\ cronTasks > 0
    /\ HasFreeUpdate
    /\ PerformUpdate("tick")
    /\ UNCHANGED <<isRunning, updateTask, cronTasks, defaultTTL, io>>

\* a manual trigger that starts the scheduler as well
TriggerManualUpdateStarts ==
    /\ HasFreeUpdate
    /\ PerformUpdate("manual")
    /\ isRunning' = TRUE
    /\ updateTask' = <<GetCronExpression(120)>>
    /\ UNCHANGED <<cronTasks, defaultTTL, io>>

\* isActive()
IsActive == isRunning

\* triggerManualUpdate()
TriggerManualUpdate ==
    /\ HasFreeUpdate
    /\ PerformUpdate("manual")
    /\ UNCHANGED <<isRunning, updateTask, cronTasks, defaultTTL, io>>

\* what aggregateAllTokens resolves to: a list, or [] from its own catch
\* block when it failed; it never rejects
AggregationAnswers ==
    {<<>>, <<BatchToken("Aa", 2, 4)>>, <<BatchToken("Aa", 4, 6)>>}

\* the socket that connects while the scheduler is followed
SchedulerSockets == {"s1"}

\* aggregateAllTokens has answered: the broadcast is called with its result
\* when the WebSocket server is initialised
UpdateAggregated(u, tokens) ==
    /\ updates[u].pc = "aggregateAllTokens"
    /\ updates' = [updates EXCEPT ![u] =
                      [@ EXCEPT !.tokens = tokens,
                                !.pc = IF io THEN "broadcastPriceUpdates" ELSE "done"]]
    /\ UNCHANGED <<isRunning, updateTask, cronTasks, defaultTTL, io>>

\* a failure of the broadcast that stops the scheduler
UpdateBroadcastStopsTimer(u, thrown) ==
    /\ updates[u].pc = "broadcastPriceUpdates"
    /\ thrown => connectedClients # {}
    /\ updates' = [updates EXCEPT ![u] = [@ EXCEPT !.pc = "done", !.caught = thrown,
                                                   !.tokens = <<>>]]
    /\ IF thrown
       THEN UNCHANGED wsVars
       ELSE BroadcastPriceUpdates(updates[u].tokens)
    /\ updateTask' = IF thrown THEN <<>> ELSE updateTask
    /\ isRunning' = IF thrown THEN FALSE ELSE isRunning
    /\ cronTasks' = IF thrown THEN 0 ELSE cronTasks
    /\ UNCHANGED <<defaultTTL, io>>

\* broadcastPriceUpdates has run, or has thrown before it emitted anything
\* (it gets that far with a connected client only) and the catch block of
\* performUpdate has logged the error
UpdateBroadcast(u, thrown) ==
    /\ updates[u].pc = "broadcastPriceUpdates"
    /\ thrown => connectedClients # {}
    /\ updates' = [updates EXCEPT ![u] = [@ EXCEPT !.pc = "done", !.caught = thrown,
                                                   !.tokens = <<>>]]
    /\ IF thrown
       THEN UNCHANGED wsVars
       ELSE BroadcastPriceUpdates(updates[u].tokens)
    /\ UNCHANGED <<isRunning, updateTask, cronTasks, defaultTTL, io>>

\* performUpdate has returned
UpdateReturned(u) ==
    /\ updates[u].pc = "done"
    /\ updates' = [updates EXCEPT ![u] = NoUpdate]
    /\ UNCHANGED <<isRunning, updateTask, cronTasks, defaultTTL, io>>

NextSched ==
    \/ \E i \in Intervals : Start(i) /\ UNCHANGED <<clientVars, aggVars, mergeVars, now, wsVars>>
    \/ Stop /\ UNCHANGED <<clientVars, aggVars, mergeVars, now, wsVars>>
    \/ \E i \in Intervals : Restart(i) /\ UNCHANGED <<clientVars, aggVars, mergeVars, now, wsVars>>
    \/ TimerFires /\ UNCHANGED <<clientVars, aggVars, mergeVars, now, wsVars>>
    \/ TriggerManualUpdate /\ UNCHANGED <<clientVars, aggVars, mergeVars, now, wsVars>>
    \/ \E u \in UpdateIds, tokens \in AggregationAnswers :
          UpdateAggregated(u, tokens) /\ UNCHANGED <<clientVars, aggVars, mergeVars, now, wsVars>>
    \/ \E u \in UpdateIds, thrown \in BOOLEAN :
          UpdateBroadcast(u, thrown) /\ UNCHANGED <<clientVars, aggVars, mergeVars, now>>
    \/ \E u \in UpdateIds : UpdateReturned(u) /\ UNCHANGED <<clientVars, aggVars, mergeVars, now, wsVars>>
    \/ \E c \in SchedulerSockets : Connect(c) /\ UNCHANGED <<clientVars, aggVars, mergeVars, now, schedVars>>
    \/ \E c \in SchedulerSockets, tokens \in AggregationAnswers :
          InitialDataSent(c, tokens) /\ UNCHANGED <<clientVars, aggVars, mergeVars, now, schedVars>>
    \/ \E c \in SchedulerSockets : Disconnect(c) /\ UNCHANGED <<clientVars, aggVars, mergeVars, now, schedVars>>

\* a broadcast called with any batch, as performUpdate calls it with what the
\* aggregation answered, between connections, subscriptions and disconnections
NextBroadcast ==
    \/ \E c \in Sockets : Connect(c) /\ UNCHANGED <<clientVars, aggVars, mergeVars, now, schedVars>>
    \/ \E c \in Sockets, tokens \in AggregationAnswers :
          InitialDataSent(c, tokens) /\ UNCHANGED <<clientVars, aggVars, mergeVars, now, schedVars>>
    \/ \E c \in Sockets, ids \in (SUBSET BatchTokenIds) \ {{}} :
          Subscribe(c, ids) /\ UNCHANGED <<clientVars, aggVars, mergeVars, now, schedVars>>
    \/ \E c \in Sockets, ids \in (SUBSET BatchTokenIds) \ {{}} :
          Unsubscribe(c, ids) /\ UNCHANGED <<clientVars, aggVars, mergeVars, now, schedVars>>
    \/ \E c \in Sockets : Disconnect(c) /\ UNCHANGED <<clientVars, aggVars, mergeVars, now, schedVars>>
    \/ \E tokens \in Batches :
          BroadcastPriceUpdates(tokens) /\ UNCHANGED <<clientVars, aggVars, mergeVars, now, schedVars>>

\* the instant the process starts is instant 0
ClockStarts == now = 0

EmptyCaches ==
    /\ memoryCache = <<>>
    /\ redisToken = [k \in CacheKeys |-> <<>>]
    /\ redisAll = <<>>
    /\ redisTtl = [k \in RedisKeys |-> 0]
    /\ task = [t \in Tasks |-> IdleTask]

SetTask(t, r) == task' = [task EXCEPT ![t] = r]

Done(r, value) == [r EXCEPT !.pc = "done", !.ret = value]

\* a read that never finds the key
RedisGetNothing(ok, stored) == <<>>

\* a read that answers what is stored even when it fails
RedisGetDespiteFailure(ok, stored) == stored

\* redisClient.get
RedisGet(ok, stored) == IF ok THEN stored ELSE <<>>

\* a write that stores nothing
RedisSetNothing(ok, stored, value) == stored

\* redisClient.setEx: the value
RedisSet(ok, stored, value) == IF ok THEN <<value>> ELSE stored

\* redisClient.setEx: the key's time to live starts again
RedisSetTtl(ok, ttl, key) == IF ok THEN [ttl EXCEPT ![key] = RedisTtlTicks] ELSE ttl

\* redisClient.del
RedisDelTtl(ok, ttl, keys) ==
    IF ok THEN [k \in RedisKeys |-> IF k \in keys THEN 0 ELSE ttl[k]] ELSE ttl

\* aggregateToken up to its first await: the memory cache is looked up
EnterAggregateToken(t, cache, r) ==
    LET memCached == GetFromMemoryCache(cache, r.addr)
    IN  /\ memoryCache' = CleanExpired(cache, r.addr)
        /\ SetTask(t, IF memCached # <<>>
                      THEN Done(r, memCached)
                      ELSE [r EXCEPT !.pc = "token.getToken"])

StartAggregateToken(t, address) ==
    /\ task[t].pc = "idle"
    /\ EnterAggregateToken(t, memoryCache,
          [task[t] EXCEPT !.op = "aggregateToken", !.addr = address])
    /\ UNCHANGED <<redisToken, redisAll, redisTtl>>

\* refreshToken up to its await of deleteToken
StartRefreshToken(t, address) ==
    /\ task[t].pc = "idle"
    /\ memoryCache' = MemoryDelete(memoryCache, address)
    /\ SetTask(t, [task[t] EXCEPT !.op = "refreshToken", !.addr = address,
                                  !.pc = "refresh.deleteToken"])
    /\ UNCHANGED <<redisToken, redisAll, redisTtl>>

\* a deleteToken that takes the full list away with the token's key
RefreshTokenDeletedWithList(t, ok) ==
    /\ task[t].pc = "refresh.deleteToken"
    /\ redisToken' = IF ok THEN [redisToken EXCEPT ![task[t].addr] = <<>>]
                     ELSE redisToken
    /\ redisTtl' = RedisDelTtl(ok, redisTtl, {task[t].addr, AggregatedKey})
    /\ redisAll' = IF ok THEN <<>> ELSE redisAll
    /\ EnterAggregateToken(t, memoryCache, task[t])

\* deleteToken has answered; aggregateToken is entered
RefreshTokenDeleted(t, ok) ==
    /\ task[t].pc = "refresh.deleteToken"
    /\ redisToken' = IF ok THEN [redisToken EXCEPT ![task[t].addr] = <<>>]
                     ELSE redisToken
    /\ redisTtl' = RedisDelTtl(ok, redisTtl, {task[t].addr})
    /\ EnterAggregateToken(t, memoryCache, task[t])
    /\ UNCHANGED redisAll

\* getToken has answered: a hit fills the memory cache and is returned; a
\* miss looks the address up in the CSV and starts the two fetches
TokenCacheChecked(t, ok) ==
    /\ task[t].pc = "token.getToken"
    /\ LET cached == RedisGet(ok, redisToken[task[t].addr])
       IN  IF cached # <<>>
           THEN /\ memoryCache' = SetMemoryCache(memoryCache, task[t].addr, cached[1])
                /\ SetTask(t, Done(task[t], cached))
           ELSE /\ memoryCache' = memoryCache
                /\ SetTask(t, IF CsvGetToken(task[t].addr) = <<>>
                              THEN Done(task[t], <<>>)
                              ELSE [task[t] EXCEPT !.pc = "token.fetch"])
    /\ UNCHANGED <<redisToken, redisAll, redisTtl>>

\* Promise.allSettled has answered: merge, and give up without sources
TokenFetched(t) ==
    /\ task[t].pc = "token.fetch"
    /\ \E dexData \in DexResults(task[t].addr), geckoData \in GeckoResults(task[t].addr) :
          LET tokenData == MergeTokenData(dexData, geckoData, CsvGetToken(task[t].addr)[1])
              fetched == [task[t] EXCEPT
                             !.raw = <<[address |-> task[t].addr,
                                        dexScreener |-> dexData,
                                        geckoTerminal |-> geckoData]>>]
          IN  SetTask(t, IF HasSources(tokenData)
                         THEN [fetched EXCEPT !.pc = "token.setToken",
                                              !.data = <<tokenData>>]
                         ELSE Done(fetched, <<>>))
    /\ UNCHANGED cacheVars

\* setToken has answered: the memory cache is filled, the record returned
TokenStored(t, ok) ==
    /\ task[t].pc = "token.setToken"
    /\ redisToken' = [redisToken EXCEPT ![task[t].addr] =
                         RedisSet(ok, @, JsonRoundTrip(task[t].data[1]))]
    /\ redisTtl' = RedisSetTtl(ok, redisTtl, task[t].addr)
    /\ memoryCache' = SetMemoryCache(memoryCache, task[t].addr, task[t].data[1])
    /\ SetTask(t, Done(task[t], task[t].data))
    /\ UNCHANGED redisAll

\* aggregateAllTokens up to its await of getAggregatedTokens
EnterAggregateAll(r) == [r EXCEPT !.pc = "all.getAggregated"]

StartAggregateAll(t) ==
    /\ task[t].pc = "idle"
    /\ SetTask(t, EnterAggregateAll([task[t] EXCEPT !.op = "aggregateAllTokens"]))
    /\ UNCHANGED cacheVars

\* refreshAllTokens up to clearAll's first await
StartRefreshAll(t) ==
    /\ task[t].pc = "idle"
    /\ memoryCache' = <<>>
    /\ SetTask(t, [task[t] EXCEPT !.op = "refreshAllTokens", !.pc = "clear.tokenKeys"])
    /\ UNCHANGED <<redisToken, redisAll, redisTtl>>

\* TokenController.clearCache: cacheService.clearAll alone
StartClearCache(t) ==
    /\ task[t].pc = "idle"
    /\ SetTask(t, [task[t] EXCEPT !.op = "clearCache", !.pc = "clear.tokenKeys"])
    /\ UNCHANGED cacheVars

\* clearAll has returned
AfterClearAll(r) ==
    IF r.op = "refreshAllTokens" THEN EnterAggregateAll(r) ELSE Done(r, <<>>)

\* keys('token:*') has answered
ClearTokenKeys(t, ok) ==
    /\ task[t].pc = "clear.tokenKeys"
    /\ SetTask(t, IF ok
                  THEN [task[t] EXCEPT
                           !.keys = {k \in CacheKeys : redisToken[k] # <<>>},
                           !.pc = "clear.aggregatedKeys"]
                  ELSE AfterClearAll(task[t]))
    /\ UNCHANGED cacheVars

\* keys('aggregated:*') has answered
ClearAggregatedKeys(t, ok) ==
    /\ task[t].pc = "clear.aggregatedKeys"
    /\ SetTask(t, IF ok /\ (task[t].keys # {} \/ redisAll # <<>>)
                  THEN [task[t] EXCEPT !.aggregatedKeys = redisAll # <<>>,
                                       !.pc = "clear.del"]
                  ELSE AfterClearAll(task[t]))
    /\ UNCHANGED cacheVars

\* del(allKeys) has answered
ClearDel(t, ok) ==
    /\ task[t].pc = "clear.del"
    /\ redisToken' = IF ok
                     THEN [k \in CacheKeys |->
                              IF k \in task[t].keys THEN <<>> ELSE redisToken[k]]
                     ELSE redisToken
    /\ redisAll' = IF ok /\ task[t].aggregatedKeys THEN <<>> ELSE redisAll
    /\ redisTtl' = RedisDelTtl(ok, redisTtl,
                       task[t].keys \cup IF task[t].aggregatedKeys
                                         THEN {AggregatedKey} ELSE {})
    /\ SetTask(t, AfterClearAll([task[t] EXCEPT !.keys = {}, !.aggregatedKeys = FALSE]))
    /\ UNCHANGED memoryCache

\* getAggregatedTokens has answered: a cached list, even an empty one, is
\* returned; otherwise the per-token cache scan starts
AllListChecked(t, ok) ==
    /\ task[t].pc = "all.getAggregated"
    /\ LET cached == RedisGet(ok, redisAll)
       IN  SetTask(t, IF cached # <<>>
                      THEN Done(task[t], cached[1])
                      ELSE [task[t] EXCEPT !.pc = "all.getToken", !.idx = 1])
    /\ UNCHANGED cacheVars

NumChunks(uncachedTokens) == (Len(uncachedTokens) + ChunkSize - 1) \div ChunkSize

\* uncachedTokens.slice(i, i + 2) of the chunk-th round
ChunkOf(uncachedTokens, chunk) ==
    SubSeq(uncachedTokens, (chunk - 1) * ChunkSize + 1,
           Min(chunk * ChunkSize, Len(uncachedTokens)))

\* fetchMultipleTokens is called for a chunk: one promise per address starts,
\* all at once (its concurrency is the chunk size), each with dexScreener = []
\* and geckoTerminal = null
StartChunk(r, chunk) ==
    LET addresses == ChunkOf(r.uncached, chunk)
    IN  [r EXCEPT !.chunk = chunk,
                  !.pc = "all.fetch",
                  !.raw = [i \in 1..Len(addresses) |->
                              [address |-> addresses[i],
                               dexScreener |-> <<>>, geckoTerminal |-> <<>>]],
                  !.pending = 1..Len(addresses),
                  !.pos = 0]

\* getToken of the idx-th CSV token has answered
AllTokenChecked(t, ok) ==
    /\ task[t].pc = "all.getToken"
    /\ LET address == CsvTokens[task[t].idx]
           cached == RedisGet(ok, redisToken[address])
           scanned == IF cached # <<>>
                      THEN [task[t] EXCEPT !.results = Append(@, cached[1])]
                      ELSE [task[t] EXCEPT !.uncached = Append(@, address)]
       IN  SetTask(t, IF task[t].idx < Len(CsvTokens)
                      THEN [scanned EXCEPT !.idx = @ + 1]
                      ELSE IF Len(scanned.uncached) > 0
                      THEN StartChunk([scanned EXCEPT !.idx = 0], 1)
                      ELSE [scanned EXCEPT !.idx = 0, !.pc = "all.finalSet"])
    /\ UNCHANGED cacheVars

MergeEntry(entry) ==
    MergeTokenData(entry.dexScreener, entry.geckoTerminal, CsvGetToken(entry.address)[1])

\* no entry is passed over
NextStorableAny(raw, pos) == pos

\* the loop over rawData runs on without an await past every entry that has
\* no metadata or no sources
RECURSIVE NextStorable(_, _)
NextStorable(raw, pos) ==
    IF pos > Len(raw) THEN pos
    ELSE IF CsvGetToken(raw[pos].address) # <<>> /\ HasSources(MergeEntry(raw[pos]))
    THEN pos
    ELSE NextStorable(raw, pos + 1)

\* the next chunk's fetches start as soon as the entries are stored, before
\* the delay and the list write
AfterEntryStartsNextChunk(r) ==
    IF r.pos <= Len(r.raw) THEN [r EXCEPT !.pc = "all.setToken"]
    ELSE IF r.chunk < NumChunks(r.uncached) THEN StartChunk(r, r.chunk + 1)
    ELSE [r EXCEPT !.pc = "all.setAggregated"]

\* where the loop over rawData stops next: at a setToken, at the delay
\* between chunks, or at the progressive setAggregatedTokens
AfterEntry(r) ==
    IF r.pos <= Len(r.raw) THEN [r EXCEPT !.pc = "all.setToken"]
    ELSE IF r.chunk < NumChunks(r.uncached) THEN [r EXCEPT !.pc = "all.delay"]
    ELSE [r EXCEPT !.pc = "all.setAggregated"]

\* what the fetches of one address can leave in its promise of
\* fetchMultipleTokens: a failed fetch leaves [] or null
FetchResults(address) ==
    {[address |-> address, dexScreener |-> d, geckoTerminal |-> g] :
        d \in DexResults(address), g \in GeckoResults(address)}

\* the two fetches of one address of the chunk have settled; when it was the
\* last one, Promise.all resolves, fetchMultipleTokens answers with the
\* entries in the order asked, and the loop over them starts
AllAddressFetched(t) ==
    /\ task[t].pc = "all.fetch"
    /\ \E i \in task[t].pending : \E result \in FetchResults(task[t].raw[i].address) :
          LET rawData == [task[t].raw EXCEPT ![i] = result]
              fetched == [task[t] EXCEPT !.raw = rawData, !.pending = @ \ {i}]
          IN  SetTask(t, IF fetched.pending = {}
                         THEN AfterEntry([fetched EXCEPT !.pos = NextStorable(rawData, 1)])
                         ELSE fetched)
    /\ UNCHANGED cacheVars

\* setToken of a merged record has answered; the record joins the results
AllTokenStored(t, ok) ==
    /\ task[t].pc = "all.setToken"
    /\ LET entry == task[t].raw[task[t].pos]
           tokenData == MergeEntry(entry)
       IN  /\ redisToken' = [redisToken EXCEPT ![entry.address] =
                                RedisSet(ok, @, JsonRoundTrip(tokenData))]
           /\ redisTtl' = RedisSetTtl(ok, redisTtl, entry.address)
           /\ SetTask(t, AfterEntry([task[t] EXCEPT
                                        !.results = Append(@, tokenData),
                                        !.pos = NextStorable(task[t].raw, task[t].pos + 1)]))
    /\ UNCHANGED <<memoryCache, redisAll>>

\* the 2 s timer between chunks has fired
AllDelayDone(t) ==
    /\ task[t].pc = "all.delay"
    /\ SetTask(t, [task[t] EXCEPT !.pc = "all.setAggregated"])
    /\ UNCHANGED cacheVars

\* the progressive setAggregatedTokens of a chunk has answered
AllListStored(t, ok) ==
    /\ task[t].pc = "all.setAggregated"
    /\ redisAll' = RedisSet(ok, redisAll, JsonRoundTripList(task[t].results))
    /\ redisTtl' = RedisSetTtl(ok, redisTtl, AggregatedKey)
    /\ SetTask(t, IF task[t].chunk < NumChunks(task[t].uncached)
                  THEN StartChunk(task[t], task[t].chunk + 1)
                  ELSE [task[t] EXCEPT !.raw = <<>>, !.pos = 0, !.pc = "all.finalSet"])
    /\ UNCHANGED <<memoryCache, redisToken>>

\* the final setAggregatedTokens has answered; the results are returned
AllFinalStored(t, ok) ==
    /\ task[t].pc = "all.finalSet"
    /\ redisAll' = RedisSet(ok, redisAll, JsonRoundTripList(task[t].results))
    /\ redisTtl' = RedisSetTtl(ok, redisTtl, AggregatedKey)
    /\ SetTask(t, Done(task[t], task[t].results))
    /\ UNCHANGED <<memoryCache, redisToken>>

\* a key that has no time left is gone
Alive(stored, ttl) == IF ttl > 0 THEN stored ELSE <<>>

\* One tick (30 s) passes: the memory cache entries written before are past
\* their TTL, every Redis key is a tick nearer its expiry, and Redis drops
\* the keys that reach it
TimePasses ==
    /\ ~(/\ \A i \in 1..Len(memoryCache) : memoryCache[i].ttlLeft = 0
         /\ \A k \in RedisKeys : redisTtl[k] = 0)
    /\ memoryCache' = [i \in 1..Len(memoryCache) |->
                          [memoryCache[i] EXCEPT !.ttlLeft = Dec(@)]]
    /\ redisTtl' = [k \in RedisKeys |-> Dec(redisTtl[k])]
    /\ redisToken' = [k \in CacheKeys |-> Alive(redisToken[k], Dec(redisTtl[k]))]
    /\ redisAll' = Alive(redisAll, Dec(redisTtl[AggregatedKey]))
    /\ UNCHANGED task

\* ------------------------------------------------------------------------
\* Specifications of the API client
\* ------------------------------------------------------------------------
\* no call of mergeTokenData is followed
NoMerge ==
    /\ mergeArgs = <<>>
    /\ mergeResult = <<>>

IdleCalls ==
    /\ pc = [c \in Calls |-> "idle"]
    /\ prov = [c \in Calls |-> "dexScreener"]
    /\ attempt = [c \in Calls |-> 0]
    /\ sleepLeft = [c \in Calls |-> 0]
    /\ lastError = [c \in Calls |-> NoError]
    /\ caught = [c \in Calls |-> NoError]
    /\ outcome = [c \in Calls |-> Pending]
    /\ blocked = [c \in Calls |-> FALSE]
    /\ sent = [c \in Calls |-> 0]
    /\ checks = [c \in Calls |-> 0]
    /\ waitedMs = [c \in Calls |-> 0]
    /\ blockedLeft = [c \in Calls |-> 0]

\* Module load: requestCount 0, resetTime = Date.now() + 60000
InitLimiter ==
    /\ requestCount = [p \in Providers |-> 0]
    /\ resetIn = [p \in Providers |-> Window]
    /\ winLeft = [p \in Providers |-> Window]
    /\ winCount = [p \in Providers |-> 0]
    /\ winSent = [p \in Providers |-> 0]
    /\ IdleCalls
    /\ EmptyCaches
    /\ ClockStarts
    /\ SchedulerStopped
    /\ NoSockets
    /\ NoMerge

NextLimiter ==
    \/ \E c \in Calls, p \in Providers : FetchStart(c, p) /\ UNCHANGED <<aggVars, otherVars>>
    \/ \E c \in Calls : RateWake(c) /\ UNCHANGED <<aggVars, otherVars>>
    \/ Tick /\ UNCHANGED <<aggVars, otherVars>>

\* Any number of concurrent fetch calls, followed through checkRateLimit
SpecLimiter == InitLimiter /\ [][NextLimiter]_vars

FairLimiter ==
    SpecLimiter /\ WF_clientVars(Tick) /\ \A c \in Calls : WF_clientVars(RateWake(c))

\* One fetch call followed to its end.  It starts at any moment of a window in
\* which other calls have used n of the provider's requests.
InitRetry ==
    /\ \E n \in [Providers -> 0..DexMaxRequests] :
          /\ \A p \in Providers : n[p] <= MaxRequests(p)
          /\ requestCount = n
          /\ winCount = n
          /\ winSent = n
    /\ \E r \in [Providers -> 0..Window] : resetIn = r /\ winLeft = r
    /\ IdleCalls
    /\ EmptyCaches
    /\ ClockStarts
    /\ SchedulerStopped
    /\ NoSockets
    /\ NoMerge

NextRetry ==
    \/ \E c \in RetryCalls, p \in Providers : FetchStart(c, p) /\ UNCHANGED <<aggVars, otherVars>>
    \/ \E c \in RetryCalls : RateWake(c) /\ UNCHANGED <<aggVars, otherVars>>
    \/ \E c \in RetryCalls : AttemptSucceeds(c) /\ UNCHANGED <<aggVars, otherVars>>
    \/ \E c \in RetryCalls, status \in ErrorStatuses :
          \E header \in IF status = 429 THEN RetryAfterHeaders ELSE {<<>>} :
             AttemptFails(c, status, header) /\ UNCHANGED <<aggVars, otherVars>>
    \/ \E c \in RetryCalls : Wake429(c) /\ UNCHANGED <<aggVars, otherVars>>
    \/ \E c \in RetryCalls : WakeBackoff(c) /\ UNCHANGED <<aggVars, otherVars>>
    \/ Tick /\ UNCHANGED <<aggVars, otherVars>>

SpecRetry == InitRetry /\ [][NextRetry]_vars

\* Timers fire, time passes, and every request ends (axios times out at 10 s)
FairRetry ==
    /\ SpecRetry
    /\ WF_clientVars(Tick)
    /\ \A c \in RetryCalls :
          /\ WF_clientVars(RateWake(c))
          /\ WF_clientVars(Wake429(c))
          /\ WF_clientVars(WakeBackoff(c))
          /\ WF_clientVars(AttemptSucceeds(c) \/ \E st \in ErrorStatuses : AttemptFails(c, st, <<>>))

\* ------------------------------------------------------------------------
\* Specification of the aggregation service and its two cache tiers
\* ------------------------------------------------------------------------
NextAgg ==
    \/ \E t \in Tasks, a \in TokenRequests : StartAggregateToken(t, a) /\ UNCHANGED <<clientVars, otherVars>>
    \/ \E t \in Tasks, a \in TokenRequests : StartRefreshToken(t, a) /\ UNCHANGED <<clientVars, otherVars>>
    \/ \E t \in Tasks, ok \in BOOLEAN : RefreshTokenDeleted(t, ok) /\ UNCHANGED <<clientVars, otherVars>>
    \/ \E t \in Tasks, ok \in BOOLEAN : TokenCacheChecked(t, ok) /\ UNCHANGED <<clientVars, otherVars>>
    \/ \E t \in Tasks : TokenFetched(t) /\ UNCHANGED <<clientVars, otherVars>>
    \/ \E t \in Tasks, ok \in BOOLEAN : TokenStored(t, ok) /\ UNCHANGED <<clientVars, otherVars>>
    \/ \E t \in BulkTasks : StartAggregateAll(t) /\ UNCHANGED <<clientVars, otherVars>>
    \/ \E t \in BulkTasks : StartRefreshAll(t) /\ UNCHANGED <<clientVars, otherVars>>
    \/ \E t \in Tasks : StartClearCache(t) /\ UNCHANGED <<clientVars, otherVars>>
    \/ \E t \in Tasks, ok \in BOOLEAN : ClearTokenKeys(t, ok) /\ UNCHANGED <<clientVars, otherVars>>
    \/ \E t \in Tasks, ok \in BOOLEAN : ClearAggregatedKeys(t, ok) /\ UNCHANGED <<clientVars, otherVars>>
    \/ \E t \in Tasks, ok \in BOOLEAN : ClearDel(t, ok) /\ UNCHANGED <<clientVars, otherVars>>
    \/ \E t \in Tasks, ok \in BOOLEAN : AllListChecked(t, ok) /\ UNCHANGED <<clientVars, otherVars>>
    \/ \E t \in Tasks, ok \in BOOLEAN : AllTokenChecked(t, ok) /\ UNCHANGED <<clientVars, otherVars>>
    \/ \E t \in Tasks : AllAddressFetched(t) /\ UNCHANGED <<clientVars, otherVars>>
    \/ \E t \in Tasks, ok \in BOOLEAN : AllTokenStored(t, ok) /\ UNCHANGED <<clientVars, otherVars>>
    \/ \E t \in Tasks : AllDelayDone(t) /\ UNCHANGED <<clientVars, otherVars>>
    \/ \E t \in Tasks, ok \in BOOLEAN : AllListStored(t, ok) /\ UNCHANGED <<clientVars, otherVars>>
    \/ \E t \in Tasks, ok \in BOOLEAN : AllFinalStored(t, ok) /\ UNCHANGED <<clientVars, otherVars>>
    \/ TimePasses /\ UNCHANGED <<clientVars, otherVars>>

\* Requests to the service in any interleaving, over empty caches at start
SpecAgg == InitLimiter /\ [][NextAgg]_vars

\* ------------------------------------------------------------------------
\* Specification of mergeTokenData alone, over provider documents with
\* missing fields, several pairs and ties of the 24 h volume
\* ------------------------------------------------------------------------
MaxPairs == 2

MergePairs ==
    {DexPair,
     [priceUsd |-> <<6>>, volume |-> [h1 |-> <<4>>, h6 |-> <<6>>, h24 |-> <<8>>]],
     [priceUsd |-> <<8>>, volume |-> [h1 |-> <<>>, h6 |-> <<2>>, h24 |-> <<6>>]],
     [priceUsd |-> <<>>, volume |-> [h1 |-> <<>>, h6 |-> <<>>, h24 |-> <<>>]]}

MergeGeckos ==
    {GeckoToken,
     [GeckoToken EXCEPT !.pool = <<>>],
     [price_usd |-> <<>>, volume_usd |-> [h24 |-> <<>>], total_reserve_in_usd |-> <<>>,
      pool |-> <<[volume_usd |-> [h1 |-> <<6>>, h6 |-> <<>>]]>>]}

PairLists == UNION {[1..n -> MergePairs] : n \in 0..MaxPairs}

InitMerge ==
    /\ requestCount = [p \in Providers |-> 0]
    /\ resetIn = [p \in Providers |-> Window]
    /\ winLeft = [p \in Providers |-> Window]
    /\ winCount = [p \in Providers |-> 0]
    /\ winSent = [p \in Providers |-> 0]
    /\ IdleCalls
    /\ EmptyCaches
    /\ ClockStarts
    /\ SchedulerStopped
    /\ NoSockets
    /\ \E pairs \in PairLists, gecko \in {<<>>} \cup {<<g>> : g \in MergeGeckos} :
          mergeArgs = [dexScreenerPairs |-> pairs,
                       geckoTerminalData |-> gecko,
                       metadata |-> Metadata(CsvTokens[1])]
    /\ mergeResult = <<>>

MergeCalled ==
    /\ mergeResult = <<>>
    /\ mergeResult' = <<MergeTokenData(mergeArgs.dexScreenerPairs,
                                       mergeArgs.geckoTerminalData,
                                       mergeArgs.metadata)>>
    /\ UNCHANGED mergeArgs

NextMerge == MergeCalled /\ UNCHANGED <<clientVars, aggVars, now, schedVars, wsVars>>

SpecMerge == InitMerge /\ [][NextMerge]_vars

\* ------------------------------------------------------------------------
\* Specification of the memory cache alone: every use the service makes of
\* the Map, for all the spellings of the CSV's addresses a request can carry
\* ------------------------------------------------------------------------
MemoryKeys == {k \in CacheKeys : InCsv(k)}

\* the records that can be cached for an address
MemoryRecords(address) ==
    {MergeEntry(e) : e \in {f \in FetchResults(address) : HasSources(MergeEntry(f))}}
    \cup {JsonRoundTrip(MergeEntry(e)) :
             e \in {f \in FetchResults(address) : HasSources(MergeEntry(f))}}

\* setMemoryCache, as aggregateToken calls it
MemoryStored(address, data) ==
    /\ memoryCache' = SetMemoryCache(memoryCache, address, data)
    /\ UNCHANGED <<redisToken, redisAll, redisTtl, task>>

\* getFromMemoryCache
MemoryLookedUp(address) ==
    /\ memoryCache' = CleanExpired(memoryCache, address)
    /\ UNCHANGED <<redisToken, redisAll, redisTtl, task>>

\* memoryCache.delete, as refreshToken calls it
MemoryDeleted(address) ==
    /\ memoryCache' = MemoryDelete(memoryCache, address)
    /\ UNCHANGED <<redisToken, redisAll, redisTtl, task>>

NextMemory ==
    \/ \E a \in MemoryKeys : \E d \in MemoryRecords(a) :
          MemoryStored(a, d) /\ UNCHANGED <<clientVars, otherVars>>
    \/ \E a \in MemoryKeys : MemoryLookedUp(a) /\ UNCHANGED <<clientVars, otherVars>>
    \/ \E a \in MemoryKeys : MemoryDeleted(a) /\ UNCHANGED <<clientVars, otherVars>>
    \/ TimePasses /\ UNCHANGED <<clientVars, otherVars>>

SpecMemory == InitLimiter /\ [][NextMemory]_vars

\* ------------------------------------------------------------------------
\* Specification of aggregateAllTokens: requests for all tokens alone, in any
\* interleaving, over empty caches at start
\* ------------------------------------------------------------------------
NextAll ==
    \/ \E t \in Tasks : StartAggregateAll(t) /\ UNCHANGED <<clientVars, otherVars>>
    \/ \E t \in Tasks, ok \in BOOLEAN : AllListChecked(t, ok) /\ UNCHANGED <<clientVars, otherVars>>
    \/ \E t \in Tasks, ok \in BOOLEAN : AllTokenChecked(t, ok) /\ UNCHANGED <<clientVars, otherVars>>
    \/ \E t \in Tasks : AllAddressFetched(t) /\ UNCHANGED <<clientVars, otherVars>>
    \/ \E t \in Tasks, ok \in BOOLEAN : AllTokenStored(t, ok) /\ UNCHANGED <<clientVars, otherVars>>
    \/ \E t \in Tasks : AllDelayDone(t) /\ UNCHANGED <<clientVars, otherVars>>
    \/ \E t \in Tasks, ok \in BOOLEAN : AllListStored(t, ok) /\ UNCHANGED <<clientVars, otherVars>>
    \/ \E t \in Tasks, ok \in BOOLEAN : AllFinalStored(t, ok) /\ UNCHANGED <<clientVars, otherVars>>
    \/ TimePasses /\ UNCHANGED <<clientVars, otherVars>>

SpecAll == InitLimiter /\ [][NextAll]_vars

\* ------------------------------------------------------------------------
\* Specification of two consecutive refreshToken calls for one address: the
\* second is made when the first has returned, and the clock goes on
\* ------------------------------------------------------------------------
MaxNow == 3

\* time goes by between any two steps
ClockAdvances ==
    /\ now < MaxNow
    /\ now' = now + 1
    /\ UNCHANGED <<clientVars, aggVars, mergeVars, schedVars, wsVars>>

FirstRefresh == 1

SecondRefresh == 2

NextRefresh ==
    \/ \E a \in TokenRequests :
          StartRefreshToken(FirstRefresh, a) /\ UNCHANGED <<clientVars, otherVars>>
    \/ /\ task[FirstRefresh].pc = "done"
       /\ StartRefreshToken(SecondRefresh, task[FirstRefresh].addr)
       /\ UNCHANGED <<clientVars, otherVars>>
    \/ \E t \in Tasks, ok \in BOOLEAN : RefreshTokenDeleted(t, ok) /\ UNCHANGED <<clientVars, otherVars>>
    \/ \E t \in Tasks, ok \in BOOLEAN : TokenCacheChecked(t, ok) /\ UNCHANGED <<clientVars, otherVars>>
    \/ \E t \in Tasks : TokenFetched(t) /\ UNCHANGED <<clientVars, otherVars>>
    \/ \E t \in Tasks, ok \in BOOLEAN : TokenStored(t, ok) /\ UNCHANGED <<clientVars, otherVars>>
    \/ TimePasses /\ UNCHANGED <<clientVars, otherVars>>
    \/ ClockAdvances

SpecRefresh == InitLimiter /\ [][NextRefresh]_vars

\* ------------------------------------------------------------------------
\* Specification of aggregateAllTokens while the providers answer: as SpecAll,
\* but every fetch of an address brings what its providers list
\* ------------------------------------------------------------------------
\* both fetches of the entry's address came back with the provider's data,
\* where the provider lists the address
ProvidersAnswered(entry) ==
    /\ entry.dexScreener \in DexResults(entry.address)
    /\ entry.geckoTerminal \in GeckoResults(entry.address)
    /\ DexResults(entry.address) # {<<>>} => entry.dexScreener # <<>>
    /\ GeckoResults(entry.address) # {<<>>} => entry.geckoTerminal # <<>>

NextAllUp ==
    \/ \E t \in Tasks : StartAggregateAll(t) /\ UNCHANGED <<clientVars, otherVars>>
    \/ \E t \in Tasks, ok \in BOOLEAN : AllListChecked(t, ok) /\ UNCHANGED <<clientVars, otherVars>>
    \/ \E t \in Tasks, ok \in BOOLEAN : AllTokenChecked(t, ok) /\ UNCHANGED <<clientVars, otherVars>>
    \/ \E t \in Tasks :
          /\ AllAddressFetched(t)
          /\ \A i \in 1..Len(task'[t].raw) :
                i \notin task'[t].pending => ProvidersAnswered(task'[t].raw[i])
          /\ UNCHANGED <<clientVars, otherVars>>
    \/ \E t \in Tasks, ok \in BOOLEAN : AllTokenStored(t, ok) /\ UNCHANGED <<clientVars, otherVars>>
    \/ \E t \in Tasks : AllDelayDone(t) /\ UNCHANGED <<clientVars, otherVars>>
    \/ \E t \in Tasks, ok \in BOOLEAN : AllListStored(t, ok) /\ UNCHANGED <<clientVars, otherVars>>
    \/ \E t \in Tasks, ok \in BOOLEAN : AllFinalStored(t, ok) /\ UNCHANGED <<clientVars, otherVars>>
    \/ TimePasses /\ UNCHANGED <<clientVars, otherVars>>

SpecAllUp == InitLimiter /\ [][NextAllUp]_vars

\* ------------------------------------------------------------------------
\* Specification of refreshToken after aggregateAllTokens: one caller asks
\* for the list; when it is answered and while a full list is stored, another
\* refreshes one address and, answered, asks for the list before it expires;
\* the second caller is followed up to the answer of getAggregatedTokens
\* ------------------------------------------------------------------------
ListCaller == 1

RefreshCaller == 2

\* the caller of refreshToken, answered, calls aggregateAllTokens
ListAskedAfterRefresh(t) ==
    /\ task[t].op = "refreshToken"
    /\ task[t].pc = "done"
    /\ SetTask(t, EnterAggregateAll([IdleTask EXCEPT !.op = "aggregateAllTokens"]))
    /\ UNCHANGED cacheVars

NextStale ==
    \/ StartAggregateAll(ListCaller) /\ UNCHANGED <<clientVars, otherVars>>
    \/ /\ task[ListCaller].pc = "done"
       /\ redisAll # <<>>
       /\ \E a \in TokenRequests : StartRefreshToken(RefreshCaller, a)
       /\ UNCHANGED <<clientVars, otherVars>>
    \/ \E t \in Tasks, ok \in BOOLEAN : RefreshTokenDeleted(t, ok) /\ UNCHANGED <<clientVars, otherVars>>
    \/ \E t \in Tasks, ok \in BOOLEAN : TokenCacheChecked(t, ok) /\ UNCHANGED <<clientVars, otherVars>>
    \/ \E t \in Tasks : TokenFetched(t) /\ UNCHANGED <<clientVars, otherVars>>
    \/ \E t \in Tasks, ok \in BOOLEAN : TokenStored(t, ok) /\ UNCHANGED <<clientVars, otherVars>>
    \/ /\ redisAll # <<>>
       /\ ListAskedAfterRefresh(RefreshCaller)
       /\ UNCHANGED <<clientVars, otherVars>>
    \/ \E t \in Tasks, ok \in BOOLEAN : AllListChecked(t, ok) /\ UNCHANGED <<clientVars, otherVars>>
    \/ \E ok \in BOOLEAN : AllTokenChecked(ListCaller, ok) /\ UNCHANGED <<clientVars, otherVars>>
    \/ AllAddressFetched(ListCaller) /\ UNCHANGED <<clientVars, otherVars>>
    \/ \E ok \in BOOLEAN : AllTokenStored(ListCaller, ok) /\ UNCHANGED <<clientVars, otherVars>>
    \/ AllDelayDone(ListCaller) /\ UNCHANGED <<clientVars, otherVars>>
    \/ \E ok \in BOOLEAN : AllListStored(ListCaller, ok) /\ UNCHANGED <<clientVars, otherVars>>
    \/ \E ok \in BOOLEAN : AllFinalStored(ListCaller, ok) /\ UNCHANGED <<clientVars, otherVars>>
    \/ TimePasses /\ UNCHANGED <<clientVars, otherVars>>

SpecStale == InitLimiter /\ [][NextStale]_vars

\* ------------------------------------------------------------------------
\* Specification of the scheduler: start, stop, restart, manual triggers and
\* cron ticks in any order, each update followed to its end
\* ------------------------------------------------------------------------
SpecSched == InitLimiter /\ [][NextSched]_vars

\* ------------------------------------------------------------------------
\* Specification of the broadcaster
\* ------------------------------------------------------------------------
SpecBroadcast == InitLimiter /\ [][NextBroadcast]_vars

\* getRateLimitStatus().remaining
Remaining(p) == MaxRequests(p) - requestCount[p]

\* ------------------------------------------------------------------------
\* Claims about the rate limiter (SpecLimiter, FairLimiter)
\* ------------------------------------------------------------------------
\* C1: for each provider, the number of calls that pass checkRateLimit within
\* one 60-second window never exceeds maxRequests, whatever the interleaving.
C1_WindowQuotaRespected ==
    \A p \in Providers : winCount[p] <= MaxRequests(p)

\* C2: in every reachable state 0 <= requestCount <= maxRequests for each
\* provider, so the remaining quota of getRateLimitStatus is never negative.
C2_CountWithinQuota ==
    \A p \in Providers :
        /\ requestCount[p] >= 0
        /\ requestCount[p] <= MaxRequests(p)
        /\ Remaining(p) >= 0

\* C2 witness: a provider's quota is used up and a further caller is blocked
C2_QuotaUsedUp ==
    \E p \in Providers, c \in Calls :
        requestCount[p] = MaxRequests(p) /\ pc[c] = "rateWait" /\ prov[c] = p

\* C3: a call that finds requestCount at maxRequests inside the window waits;
\* it is not dispatched before the resetTime it saw, and it is dispatched
\* afterwards.
C3_BlockedCallWaitsForReset ==
    /\ [][\A c \in Calls :
            (pc[c] = "idle" /\ pc'[c] # "idle"
                /\ requestCount[prov'[c]] >= MaxRequests(prov'[c])
                /\ resetIn[prov'[c]] > 0)
            => pc'[c] = "rateWait"]_vars
    /\ [](\A c \in Calls : pc[c] # "rateWait" => blockedLeft[c] = 0)
    /\ \A c \in Calls : (pc[c] = "rateWait") ~> (pc[c] = "inflight")

\* C3 witness: a call that was blocked has been dispatched
C3_BlockedCallDispatched ==
    \E c \in Calls : blocked[c] /\ pc[c] = "inflight"

\* ------------------------------------------------------------------------
\* Claims about retryWithBackoff (SpecRetry, FairRetry)
\* ------------------------------------------------------------------------
\* C4: every HTTP request attempt, retries included, is preceded by a
\* check-and-increment of its provider's limiter, so the requests sent to a
\* provider within one window never exceed maxRequests.
C4_EveryRequestChecked ==
    /\ \A c \in Calls : sent[c] <= checks[c]
    /\ \A p \in Providers : winSent[p] <= MaxRequests(p)

\* C5 (as claimed): one fetch attempts the upstream operation at most 5 times.
C5_AtMostFiveAttempts ==
    \A c \in Calls : sent[c] <= 5

\* C5 (amended): one fetch attempts the upstream operation at most
\* maxRetries + 1 = 6 times: the first attempt and up to 5 retries.
C5_AtMostSixAttempts ==
    \A c \in Calls : sent[c] <= MaxRetries + 1

\* C5 witness: a fetch gave up after its sixth attempt failed
C5_SixAttemptsMade ==
    \E c \in Calls : sent[c] = MaxRetries + 1 /\ pc[c] = "failed"

\* C6: an attempt that fails with a 4xx status other than 429 makes
\* retryWithBackoff throw that error at once: no later attempt, no wait.
C6_ClientErrorFailsAtOnce ==
    \A c \in Calls :
        (lastError[c].status \in (400..499) \ {429})
        => /\ pc[c] = "failed"
           /\ outcome[c] = [kind |-> "error", error |-> lastError[c]]
           /\ sent[c] = lastError[c].attempt + 1
           /\ waitedMs[c] = 0

\* C6 witness: a retry was answered with a 404 and the call failed
C6_ClientErrorAfterRetry ==
    \E c \in Calls :
        pc[c] = "failed" /\ lastError[c].status = 404 /\ lastError[c].attempt > 0

\* C7: after a 429 the wait before the next attempt is the server's retry-after
\* duration when the header is present, and otherwise the max backoff (30 s).
C7_WaitAfter429 ==
    \A c \in Calls :
        (pc[c] = "inflight" /\ attempt[c] > 0 /\ lastError[c].status = 429)
        => waitedMs[c] = IF lastError[c].retryAfter # <<>>
                         THEN ParseInt(lastError[c].retryAfter) * 1000
                         ELSE 30000

\* C8: retryWithBackoff always ends; it returns the result of the first
\* attempt that succeeds, or, when every attempt failed with a retryable
\* error, throws the error of the final attempt.
C8_RetryEndsWithResult ==
    /\ \A c \in RetryCalls : (pc[c] = "inflight") ~> (pc[c] \in {"returned", "failed"})
    /\ [](\A c \in Calls :
            /\ pc[c] = "returned"
               => /\ outcome[c] = [kind |-> "value", attempt |-> sent[c] - 1]
                  /\ lastError[c].attempt = sent[c] - 2
            /\ (pc[c] = "failed" /\ ~(lastError[c].status \in (400..499) \ {429}))
               => /\ sent[c] = MaxRetries + 1
                  /\ outcome[c].kind = "error"
                  /\ outcome[c].error.attempt = sent[c] - 1)

\* C8 witness: all attempts failed with retryable errors, the last one a 503
C8_RetriesExhausted ==
    \E c \in Calls :
        /\ pc[c] = "failed"
        /\ outcome[c].kind = "error"
        /\ outcome[c].error.status = 503
        /\ outcome[c].error.attempt = MaxRetries

\* ------------------------------------------------------------------------
\* Claims about the aggregation service and its caches (SpecAgg)
\* ------------------------------------------------------------------------
\* C9: every record held in the memory cache, in a Redis token entry or in
\* the Redis aggregated list, and every record returned by aggregateToken,
\* aggregateAllTokens, refreshToken or refreshAllTokens, names at least one
\* contributing source.
C9_CachedAndReturnedHaveSources ==
    /\ \A i \in 1..Len(memoryCache) : memoryCache[i].data.sources # <<>>
    /\ \A k \in CacheKeys :
          \A i \in 1..Len(redisToken[k]) : redisToken[k][i].sources # <<>>
    /\ \A i \in 1..Len(redisAll) :
          \A j \in 1..Len(redisAll[i]) : redisAll[i][j].sources # <<>>
    /\ \A t \in Tasks :
          task[t].pc = "done" =>
             \A i \in 1..Len(task[t].ret) : task[t].ret[i].sources # <<>>

\* C9 witness: a refresh of all tokens has dropped a token without sources
\* and returned the others, a request for one token has returned a record,
\* and both cache tiers hold records.
C9_RecordsCachedAndReturned ==
    /\ \E t \in Tasks :
          /\ task[t].pc = "done"
          /\ task[t].op = "refreshAllTokens"
          /\ Len(task[t].ret) \in 1..(Len(CsvTokens) - 1)
    /\ \E t \in Tasks :
          /\ task[t].pc = "done"
          /\ task[t].op = "aggregateToken"
          /\ task[t].raw # <<>>
          /\ task[t].ret # <<>>
    /\ memoryCache # <<>>
    /\ \E k \in CacheKeys : redisToken[k] # <<>>
    /\ redisAll # <<>> /\ redisAll[1] # <<>>

\* C10: aggregateToken, called for an address that is not in the CSV or
\* getting data from neither provider, returns null; and a step of
\* aggregateToken that creates or updates an entry of either cache tier ends
\* the call with a record, so a call that returns null has written nothing.
C10_NoDataReturnsNullCachesNothing ==
    /\ [](\A t \in Tasks :
            (/\ task[t].pc = "done"
             /\ task[t].op \in TokenOps
             /\ \/ ~InCsv(task[t].addr)
                \/ /\ task[t].raw # <<>>
                   /\ task[t].raw[1].dexScreener = <<>>
                   /\ task[t].raw[1].geckoTerminal = <<>>)
            => task[t].ret = <<>>)
    /\ [][\A t \in Tasks :
            (/\ task'[t] # task[t]
             /\ task'[t].op \in TokenOps
             /\ \/ \E k \in CacheKeys :
                      redisToken'[k] # <<>> /\ redisToken'[k] # redisToken[k]
                \/ redisAll' # <<>> /\ redisAll' # redisAll
                \/ \E i \in 1..Len(memoryCache') :
                      \A j \in 1..Len(memoryCache) : memoryCache'[i] # memoryCache[j])
            => (task'[t].pc = "done" /\ task'[t].ret # <<>>)]_vars

\* C10 witness: one call for an address outside the CSV and one call whose
\* two fetches brought nothing have both returned null, and both tiers are
\* still empty.
C10_NullReturnedNothingCached ==
    /\ \E t \in Tasks :
          /\ task[t].pc = "done"
          /\ task[t].op = "aggregateToken"
          /\ ~InCsv(task[t].addr)
          /\ task[t].ret = <<>>
    /\ \E t \in Tasks :
          /\ task[t].pc = "done"
          /\ task[t].op = "aggregateToken"
          /\ InCsv(task[t].addr)
          /\ task[t].raw # <<>>
          /\ task[t].raw[1].dexScreener = <<>>
          /\ task[t].raw[1].geckoTerminal = <<>>
          /\ task[t].ret = <<>>
    /\ memoryCache = <<>>
    /\ \A k \in CacheKeys : redisToken[k] = <<>>
    /\ redisAll = <<>>

\* C11: when aggregateToken has fetched for a known address and at least one
\* provider returned data (DexScreener a non-empty pairs array, GeckoTerminal
\* a document: what the code logs as success), it returns a record, and the
\* record's sources are exactly the providers that returned data, DexScreener
\* before GeckoTerminal.
C11_SourcesAreProvidersWithData ==
    \A t \in Tasks :
        (/\ task[t].pc = "done"
         /\ task[t].op \in TokenOps
         /\ InCsv(task[t].addr)
         /\ task[t].raw # <<>>
         /\ (task[t].raw[1].dexScreener # <<>> \/ task[t].raw[1].geckoTerminal # <<>>))
        => /\ task[t].ret # <<>>
           /\ task[t].ret[1].sources =
                 (IF task[t].raw[1].dexScreener # <<>> THEN <<"dexscreener">> ELSE <<>>)
                 \o (IF task[t].raw[1].geckoTerminal # <<>> THEN <<"geckoterminal">> ELSE <<>>)

\* C11 witness: one call has merged both providers and another call has got
\* data from GeckoTerminal alone.
C11_BothAndOneProvider ==
    /\ \E t \in Tasks :
          /\ task[t].pc = "done"
          /\ task[t].raw # <<>>
          /\ task[t].raw[1].dexScreener # <<>>
          /\ task[t].raw[1].geckoTerminal # <<>>
          /\ task[t].ret # <<>>
          /\ task[t].ret[1].sources = <<"dexscreener", "geckoterminal">>
    /\ \E t \in Tasks :
          /\ task[t].pc = "done"
          /\ task[t].raw # <<>>
          /\ task[t].raw[1].dexScreener = <<>>
          /\ task[t].ret # <<>>
          /\ task[t].ret[1].sources = <<"geckoterminal">>

\* ------------------------------------------------------------------------
\* C12: when both providers contribute to a merged record (DexScreener gave
\* at least one pair and GeckoTerminal a document), its priceUsd and its
\* volume h1, h6 and h24 are the arithmetic mean of the value normalised from
\* DexScreener's pair of largest 24 h volume and the value normalised from
\* GeckoTerminal, and its liquidity is GeckoTerminal's.
C12_BothContributeMeanAndGeckoLiquidity ==
    (/\ mergeResult # <<>>
     /\ Len(mergeArgs.dexScreenerPairs) > 0
     /\ mergeArgs.geckoTerminalData # <<>>)
    => LET merged == mergeResult[1]
           pairs == mergeArgs.dexScreenerPairs
           best == CHOOSE i \in 1..Len(pairs) :
                      /\ \A j \in 1..Len(pairs) :
                            OrZero(pairs[j].volume.h24) <= OrZero(pairs[i].volume.h24)
                      /\ \A j \in 1..(i - 1) :
                            OrZero(pairs[j].volume.h24) < OrZero(pairs[i].volume.h24)
           dex == NormalizeDexScreenerData(pairs[best], mergeArgs.metadata)
           gecko == NormalizeGeckoTerminalData(mergeArgs.geckoTerminalData[1],
                                               mergeArgs.metadata)
       IN  /\ 2 * merged.priceUsd = dex.priceUsd + gecko.priceUsd
           /\ 2 * merged.volume.h1 = dex.volume.h1 + gecko.volume.h1
           /\ 2 * merged.volume.h6 = dex.volume.h6 + gecko.volume.h6
           /\ 2 * merged.volume.h24 = dex.volume.h24 + gecko.volume.h24
           /\ merged.liquidity = gecko.liquidity
           /\ merged.sources = <<"dexscreener", "geckoterminal">>

\* two pairs of different price, the second with the larger 24 h volume, merged
\* with a GeckoTerminal document: the averages are those of the second pair
C12_TwoPairsAndGeckoMerged ==
    /\ mergeResult # <<>>
    /\ Len(mergeArgs.dexScreenerPairs) = 2
    /\ mergeArgs.dexScreenerPairs[1] = DexPair
    /\ OrZero(mergeArgs.dexScreenerPairs[2].volume.h24) > 6
    /\ mergeArgs.geckoTerminalData = <<GeckoToken>>
    /\ mergeResult[1].priceUsd = 5
    /\ mergeResult[1].volume = [h1 |-> 4, h6 |-> 7, h24 |-> 9]
    /\ mergeResult[1].liquidity = 8

\* ------------------------------------------------------------------------
\* C13: an aggregateToken that starts while the memory cache holds an
\* unexpired record for its address returns that record at once, leaving both
\* caches as they were and without a Redis read; an aggregateToken that missed
\* the memory cache and whose Redis read finds the record returns the stored
\* record (the JSON copy of what was cached) and puts it into the memory cache
\* with a new 30 s life.
C13_MemoryThenRedisServeCached ==
    [][\A t \in Tasks :
        /\ (/\ task[t].pc = "idle"
            /\ task'[t].op = "aggregateToken"
            /\ MemoryHas(memoryCache, task'[t].addr)
            /\ MemoryFresh(MemoryEntry(memoryCache, task'[t].addr)))
           => /\ task'[t].pc = "done"
              /\ task'[t].ret = <<MemoryEntry(memoryCache, task'[t].addr).data>>
              /\ UNCHANGED cacheVars
        /\ (/\ TokenCacheChecked(t, TRUE)
            /\ task[t].op = "aggregateToken"
            /\ redisToken[task[t].addr] # <<>>)
           => /\ task'[t].pc = "done"
              /\ task'[t].ret = redisToken[task[t].addr]
              /\ task'[t].raw = <<>>
              /\ MemoryHas(memoryCache', task[t].addr)
              /\ MemoryEntry(memoryCache', task[t].addr).data = redisToken[task[t].addr][1]
              /\ MemoryEntry(memoryCache', task[t].addr).ttlLeft = Ticks(MemoryCacheTtl)
              /\ UNCHANGED <<redisToken, redisAll, redisTtl>>]_vars

\* one aggregateToken fetched and cached a record; a later one for the same
\* address returned the Redis copy without fetching, and 30 s after the record
\* was stored, its first memory entry expired, the memory cache holds that
\* copy with a full life
C13_ServedFromRedisAfterMemoryExpiry ==
    \E t, u \in Tasks :
        /\ task[t].pc = "done" /\ task[t].op = "aggregateToken" /\ task[t].raw # <<>>
        /\ task[t].ret # <<>>
        /\ task[u].pc = "done" /\ task[u].op = "aggregateToken" /\ task[u].raw = <<>>
        /\ task[u].addr = task[t].addr
        /\ task[u].ret = <<JsonRoundTrip(task[t].ret[1])>>
        /\ MemoryHas(memoryCache, task[u].addr)
        /\ MemoryFresh(MemoryEntry(memoryCache, task[u].addr))
        /\ MemoryEntry(memoryCache, task[u].addr).data = task[u].ret[1]
        /\ MemoryEntry(memoryCache, task[u].addr).ttlLeft = Ticks(MemoryCacheTtl)
        /\ redisTtl[task[u].addr] = RedisTtlTicks - Ticks(MemoryCacheTtl)

\* ------------------------------------------------------------------------
\* C14: every step that writes a token's record to Redis, the setToken of
\* aggregateToken and each setToken of a chunk of aggregateAllTokens, also
\* leaves the memory cache holding an unexpired entry for that address with
\* the same record.
C14_RedisWriteAlsoWritesMemory ==
    [][\A t \in Tasks :
        LET address == IF task[t].pc = "all.setToken"
                       THEN task[t].raw[task[t].pos].address
                       ELSE task[t].addr
        IN  (TokenStored(t, TRUE) \/ AllTokenStored(t, TRUE))
            => /\ MemoryHas(memoryCache', address)
               /\ MemoryFresh(MemoryEntry(memoryCache', address))
               /\ <<JsonRoundTrip(MemoryEntry(memoryCache', address).data)>>
                     = redisToken'[address]]_vars

\* ------------------------------------------------------------------------
\* C15: whenever the memory cache holds an unexpired entry for an address and
\* Redis holds a record for the same address, the two records are equal (the
\* Redis record being the JSON copy).
C15_TiersAgree ==
    \A k \in CacheKeys :
        (/\ MemoryHas(memoryCache, k)
         /\ MemoryFresh(MemoryEntry(memoryCache, k))
         /\ redisToken[k] # <<>>)
        => <<JsonRoundTrip(MemoryEntry(memoryCache, k).data)>> = redisToken[k]

C17_InvalidationLeavesNoEntry ==
    [][\A t \in Tasks :
        /\ RefreshTokenDeleted(t, TRUE)
           => /\ ~(/\ MemoryHas(memoryCache, task[t].addr)
                   /\ MemoryFresh(MemoryEntry(memoryCache, task[t].addr)))
              /\ redisToken'[task[t].addr] = <<>>
        /\ ((ClearDel(t, TRUE) \/ ClearAggregatedKeys(t, TRUE))
            /\ task'[t].pc \notin {"clear.tokenKeys", "clear.aggregatedKeys", "clear.del"})
           => /\ \A i \in 1..Len(memoryCache') : ~MemoryFresh(memoryCache'[i])
              /\ \A k \in CacheKeys : redisToken'[k] = <<>>
              /\ redisAll' = <<>>]_vars

\* ------------------------------------------------------------------------
\* C18: a refreshToken of an address of the CSV that has returned has made
\* the two provider fetches of its address, and a refreshAllTokens that has
\* returned has fetched at least one chunk, whatever other requests ran
\* meanwhile.
C18_RefreshAlwaysFetches ==
    \A t \in Tasks :
        /\ (task[t].pc = "done" /\ task[t].op = "refreshToken" /\ InCsv(task[t].addr))
           => task[t].raw # <<>>
        /\ (task[t].pc = "done" /\ task[t].op = "refreshAllTokens")
           => task[t].chunk >= 1

\* ------------------------------------------------------------------------
\* C19: when the Redis read that aggregateAllTokens makes first finds an
\* aggregated list, the call returns exactly that list at once: it starts no
\* chunk, fetches nothing and leaves both caches as they were.
C19_CachedListReturnedUntouched ==
    [][\A t \in Tasks :
        (AllListChecked(t, TRUE) /\ redisAll # <<>>)
        => /\ task'[t].pc = "done"
           /\ task'[t].ret = redisAll[1]
           /\ task'[t].chunk = 0
           /\ task'[t].raw = <<>>
           /\ task'[t].results = <<>>
           /\ UNCHANGED cacheVars]_vars

\* one call has fetched and stored a list of at least one record, and another
\* call has returned that list without scanning or fetching
C19_ListServedFromRedis ==
    \E t, u \in Tasks :
        /\ task[t].pc = "done" /\ task[t].chunk >= 1
        /\ task[u].pc = "done" /\ task[u].chunk = 0
        /\ task[u].uncached = <<>> /\ task[u].results = <<>>
        /\ Len(task[u].ret) > 0
        /\ redisAll = <<task[u].ret>>
        /\ task[u].ret = JsonRoundTripList(task[t].ret)

\* ------------------------------------------------------------------------
\* C20: within one aggregateAllTokens call the fetches of chunk N+1 start
\* only on the step on which chunk N's write of the list answers, when every
\* fetch of chunk N has settled and the record of every entry of chunk N that
\* has sources went through its setToken; and while fetches of a chunk are
\* outstanding the call does nothing else.
C20_ChunksStrictlySequential ==
    [][\A t \in Tasks :
        /\ task[t].pending # {} => task[t].pc = "all.fetch"
        /\ (/\ task'[t].pc = "all.fetch"
            /\ task'[t].chunk # task[t].chunk
            /\ task'[t].chunk > 1)
           => /\ task'[t].chunk = task[t].chunk + 1
              /\ task[t].pc = "all.setAggregated"
              /\ \E ok \in BOOLEAN : AllListStored(t, ok)
              /\ task[t].pending = {}
              /\ Len(task[t].raw) = Len(ChunkOf(task[t].uncached, task[t].chunk))
              /\ \A i \in 1..Len(task[t].raw) :
                    HasSources(MergeEntry(task[t].raw[i]))
                    => \E j \in 1..Len(task[t].results) :
                          task[t].results[j] = MergeEntry(task[t].raw[i])]_vars

\* a call is fetching its second chunk after both records of the first chunk
\* and the list of the two were written to Redis
C20_SecondChunkAfterFirstStored ==
    \E t \in Tasks :
        /\ task[t].pc = "all.fetch"
        /\ task[t].chunk = 2
        /\ task[t].pending # {}
        /\ Len(task[t].results) = ChunkSize
        /\ redisAll = <<JsonRoundTripList(task[t].results)>>
        /\ \A i \in 1..ChunkSize :
              redisToken[task[t].uncached[i]] = <<JsonRoundTrip(task[t].results[i])>>

\* ------------------------------------------------------------------------
\* C21: at any moment the addresses whose fetches were started by
\* aggregateAllTokens and have not settled, over all the calls in progress,
\* are at most the chunk size, 2.
C21_AtMostChunkSizeInFlight ==
    Cardinality(UNION {{task[t].raw[i].address : i \in task[t].pending} : t \in Tasks})
        <= ChunkSize

\* ------------------------------------------------------------------------
\* C22: within one aggregateAllTokens call, each setToken that succeeds
\* leaves the merged record of its address in Redis with a full life; the
\* setAggregatedTokens that ends chunk k, when it succeeds, leaves in Redis the
\* list of every record accumulated so far, which holds the record of every
\* entry of chunk k that has sources; the accumulated records are never taken
\* back; and no step of a call removes a Redis entry (only expiry does), so
\* what was written stays when the call goes no further.
C22_ProgressiveCachingKept ==
    [][/\ \A t \in Tasks :
            /\ AllTokenStored(t, TRUE)
               => LET entry == task[t].raw[task[t].pos]
                  IN  /\ HasSources(MergeEntry(entry))
                      /\ redisToken'[entry.address] = <<JsonRoundTrip(MergeEntry(entry))>>
                      /\ redisTtl'[entry.address] = RedisTtlTicks
            /\ AllListStored(t, TRUE)
               => /\ redisAll' = <<JsonRoundTripList(task[t].results)>>
                  /\ redisTtl'[AggregatedKey] = RedisTtlTicks
                  /\ \A i \in 1..Len(task[t].raw) :
                        HasSources(MergeEntry(task[t].raw[i]))
                        => \E j \in 1..Len(task[t].results) :
                              task[t].results[j] = MergeEntry(task[t].raw[i])
            /\ task[t].pc # "done"
               => /\ Len(task'[t].results) >= Len(task[t].results)
                  /\ SubSeq(task'[t].results, 1, Len(task[t].results)) = task[t].results
       /\ ((\E k \in CacheKeys : redisToken[k] # <<>> /\ redisToken'[k] = <<>>)
             \/ (redisAll # <<>> /\ redisAll' = <<>>))
          => TimePasses]_vars

\* a call is fetching its second chunk 30 s after the first chunk's records
\* and list were written: they are still in Redis
C22_FirstChunkKeptDuringSecond ==
    \E t \in Tasks :
        /\ task[t].pc = "all.fetch"
        /\ task[t].chunk = 2
        /\ Len(task[t].results) >= 1
        /\ redisAll = <<JsonRoundTripList(task[t].results)>>
        /\ redisTtl[AggregatedKey] < RedisTtlTicks
        /\ \A j \in 1..Len(task[t].results) :
              /\ redisToken[task[t].results[j].tokenId]
                    = <<JsonRoundTrip(task[t].results[j])>>
              /\ redisTtl[task[t].results[j].tokenId] < RedisTtlTicks

\* ------------------------------------------------------------------------
\* C23: an aggregateAllTokens call that found no cached list returns its
\* results: the cached record of every CSV address whose Redis read found one,
\* and, for the others, the merged record of every address whose chunk entry
\* has sources; an entry without sources adds nothing and the call goes on.
\* No address has two records and every record is of a CSV address.
C23_HitsAndFetchedOncePerAddress ==
    [][\A t \in Tasks :
        /\ (\E ok \in BOOLEAN : AllListStored(t, ok))
           => \A i \in 1..Len(task[t].raw) :
                 IF HasSources(MergeEntry(task[t].raw[i]))
                 THEN \E j \in 1..Len(task[t].results) :
                         task[t].results[j] = MergeEntry(task[t].raw[i])
                 ELSE \A j \in 1..Len(task[t].results) :
                         task[t].results[j].tokenId # task[t].raw[i].address
        /\ task[t].pc # "done"
           => /\ Len(task'[t].results) >= Len(task[t].results)
              /\ \A j \in 1..Len(task[t].results) :
                    task'[t].results[j] = task[t].results[j]
        /\ (/\ task[t].pc = "all.finalSet"
            /\ task'[t].pc = "done")
           => LET ret == task'[t].ret
                  uncachedTokens == {task[t].uncached[i] : i \in 1..Len(task[t].uncached)}
              IN  /\ ret = task[t].results
                  /\ \A i, j \in 1..Len(ret) : ret[i].tokenId = ret[j].tokenId => i = j
                  /\ \A i \in 1..Len(ret) :
                        \E n \in 1..Len(CsvTokens) : ret[i].tokenId = CsvTokens[n]
                  /\ \A n \in 1..Len(CsvTokens) :
                        CsvTokens[n] \notin uncachedTokens
                        => \E i \in 1..Len(ret) : ret[i].tokenId = CsvTokens[n]]_vars

\* a call has returned one record read from Redis and one it fetched, and has
\* skipped an address for which no provider had data
C23_HitFetchedAndSkipped ==
    \E t \in Tasks :
        /\ task[t].pc = "done"
        /\ Len(task[t].uncached) = 2
        /\ Len(task[t].ret) = 2
        /\ task[t].ret = task[t].results
        /\ task[t].ret[1].lastUpdated # task[t].ret[2].lastUpdated

\* ------------------------------------------------------------------------
\* C24: when two consecutive refreshToken calls for one address have both
\* returned and the providers answered both with the same data, the two
\* records returned are equal in every field.
C24_TwoRefreshesEqual ==
    (/\ task[FirstRefresh].pc = "done"
     /\ task[SecondRefresh].pc = "done"
     /\ task[FirstRefresh].raw # <<>>
     /\ task[SecondRefresh].raw = task[FirstRefresh].raw)
    => task[SecondRefresh].ret = task[FirstRefresh].ret

\* ------------------------------------------------------------------------
\* C25: a start(interval) made while the scheduler is stopped leaves it
\* running with the cron task of that interval installed and the cache
\* service's default TTL at 300 s whatever the interval, and calls
\* performUpdate exactly once.
C25_StartRunsInstallsAndUpdatesOnce ==
    [][\A i \in Intervals :
        (Start(i) /\ ~isRunning)
        => /\ isRunning'
           /\ defaultTTL' = 300
           /\ updateTask' = <<GetCronExpression(i)>>
           /\ updateTask'[1].every >= 1
           /\ \E u \in UpdateIds :
                 /\ updates[u].pc = "none"
                 /\ updates'[u].pc = "aggregateAllTokens"
                 /\ updates'[u].origin = "initial"
                 /\ \A v \in UpdateIds \ {u} : updates'[v] = updates[v]]_vars

\* started with a 30 s interval: running, a task that fires every 30 s, a
\* TTL of 300 s, and the one initial update under way
C25_StartedWithShortInterval ==
    /\ isRunning
    /\ updateTask = <<[every |-> 30, field |-> "second"]>>
    /\ defaultTTL = 300
    /\ Cardinality({u \in UpdateIds : updates[u].origin = "initial"}) = 1
    /\ \A u \in UpdateIds : updates[u].origin \in {"none", "initial"}

\* ------------------------------------------------------------------------
\* C26: when the aggregation of a tick fails (aggregateAllTokens answers the
\* empty list of its catch block) or its broadcast throws, the step leaves
\* the running flag and the installed task as they were and the update goes
\* on to its end; and whenever a task is installed, the next tick can fire.
C26_TickFailureAbsorbed ==
    /\ [][\A u \in UpdateIds :
            /\ (UpdateBroadcast(u, TRUE) /\ updates[u].origin = "tick")
               => /\ isRunning' = isRunning
                  /\ updateTask' = updateTask
                  /\ updates'[u].pc = "done"
                  /\ updates'[u].caught
            /\ (UpdateAggregated(u, <<>>) /\ updates[u].origin = "tick")
               => /\ isRunning' = isRunning
                  /\ updateTask' = updateTask
                  /\ updates'[u].pc = "broadcastPriceUpdates"]_vars
    /\ [](\A u \in UpdateIds :
            (updates[u].caught /\ updateTask # <<>> /\ HasFreeUpdate)
            => ENABLED TimerFires)

\* a tick whose broadcast threw is over, the scheduler is running with its
\* task installed, and a tick is under way
C26_TickAfterFailedTick ==
    /\ isRunning
    /\ updateTask # <<>>
    /\ \E u, v \in UpdateIds :
          /\ updates[u].origin = "tick"
          /\ updates[u].pc = "done"
          /\ updates[u].caught
          /\ updates[v].origin = "tick"
          /\ updates[v].pc = "aggregateAllTokens"

\* ------------------------------------------------------------------------
\* C27: a manual trigger calls performUpdate as a tick does (the update it
\* starts differs from a tick's in its origin only, and every update goes
\* from the aggregation to the broadcast of the list the aggregation
\* answered) and leaves the running flag, the installed task and the TTL
\* unchanged, whether the scheduler is running or stopped.
C27_ManualTriggerSameActionNoScheduleChange ==
    [][/\ TriggerManualUpdate
          => /\ isRunning' = isRunning
             /\ updateTask' = updateTask
             /\ defaultTTL' = defaultTTL
             /\ \E u \in UpdateIds :
                   /\ updates[u].pc = "none"
                   /\ updates'[u] = [NoUpdate EXCEPT !.origin = "manual",
                                                     !.pc = "aggregateAllTokens"]
                   /\ \A v \in UpdateIds \ {u} : updates'[v] = updates[v]
       /\ TimerFires
          => \E u \in UpdateIds :
                /\ updates[u].pc = "none"
                /\ updates'[u] = [NoUpdate EXCEPT !.origin = "tick",
                                                  !.pc = "aggregateAllTokens"]
       /\ \A u \in UpdateIds, tokens \in AggregationAnswers :
             UpdateAggregated(u, tokens)
             => /\ updates'[u].pc = "broadcastPriceUpdates"
                /\ updates'[u].tokens = tokens
                /\ isRunning' = isRunning
                /\ updateTask' = updateTask]_vars

\* a manual update has run to its end on a scheduler that is stopped, and
\* its broadcast of one record has ended with the heartbeat
C27_ManualUpdateDoneWhileStopped ==
    /\ ~isRunning
    /\ updateTask = <<>>
    /\ \A u \in UpdateIds : updates[u].origin \in {"none", "manual"}
    /\ \E u \in UpdateIds :
          /\ updates[u].origin = "manual"
          /\ updates[u].pc = "done"
          /\ ~updates[u].caught
    /\ emitted # <<>>
    /\ emitted[Len(emitted)].event = "heartbeat"
    /\ emitted[Len(emitted)].data.tokenCount = 1

\* ------------------------------------------------------------------------
\* C28: in a broadcast to connected clients, a record of the batch gets a
\* price_update, one and to the room of its address, exactly when the Map
\* held a previous record of the address with another price; the event
\* carries the new price and a priceChange c with c * previous price =
\* (new price - previous price) * 100 (Infinity when the previous price is
\* 0); no other price_update is emitted, and a subscriber of the address
\* receives one exactly in that case.
C28_PriceUpdateIffPriceChanged ==
    [][\A tokens \in Batches :
        BroadcastOf(tokens)
        => /\ \A i \in 1..Len(tokens) :
                LET token == tokens[i]
                    previous == previousTokenData[token.tokenId]
                    changed == previous # <<>> /\ previous[1].priceUsd # token.priceUsd
                    evs == {k \in 1..Len(emitted') :
                               /\ emitted'[k].event = "price_update"
                               /\ emitted'[k].data.tokenId = token.tokenId}
                IN  /\ connectedClients # {}
                       => Cardinality(evs) = IF changed THEN 1 ELSE 0
                    /\ \A s \in Room(token.tokenId) :
                          (\E k \in evs : s \in Receivers(emitted'[k])) <=> changed
                    /\ \A k \in evs :
                          /\ emitted'[k].to = <<"token", token.tokenId>>
                          /\ emitted'[k].data.priceUsd = token.priceUsd
                          /\ previous[1].priceUsd # 0
                             => /\ emitted'[k].data.priceChange.finite
                                /\ emitted'[k].data.priceChange.value * previous[1].priceUsd
                                   = (token.priceUsd - previous[1].priceUsd) * 100
                          /\ previous[1].priceUsd = 0
                             => ~emitted'[k].data.priceChange.finite
           /\ \A k \in 1..Len(emitted') :
                 emitted'[k].event = "price_update"
                 => \E i \in 1..Len(tokens) : tokens[i].tokenId = emitted'[k].data.tokenId]_vars

\* a batch of two records was broadcast to two clients, one of them in the
\* room of Aa: the price of Aa went from 2 to 4 and its price_update says
\* 100, and Bb got none
C28_PriceDoubledOtherUnchanged ==
    /\ connectedClients = {"s1", "s2"}
    /\ Room("Aa") = {"s1"}
    /\ emitted # <<>>
    /\ emitted[1].event = "price_update"
    /\ emitted[1].to = <<"token", "Aa">>
    /\ emitted[1].data.priceChange = [finite |-> TRUE, value |-> 100]
    /\ emitted[Len(emitted)].event = "heartbeat"
    /\ emitted[Len(emitted)].data.tokenCount = 2
    /\ \A k \in 1..Len(emitted) :
          emitted[k].event = "price_update" => emitted[k].data.tokenId = "Aa"

\* ------------------------------------------------------------------------
\* C29: in a broadcast to connected clients, a record of the batch gets a
\* volume_spike, to the room of its address, exactly when the Map held a
\* previous record of the address whose 24 h volume is > 0 and the new
\* volume is at least 1.5 times it; the event's percentageIncrease p
\* satisfies p * previous volume = (new volume - previous volume) * 100.
C29_VolumeSpikeIffRatioReached ==
    [][\A tokens \in Batches :
        BroadcastOf(tokens)
        => \A i \in 1..Len(tokens) :
              LET token == tokens[i]
                  previous == previousTokenData[token.tokenId]
                  spike == /\ previous # <<>>
                           /\ previous[1].volume.h24 > 0
                           /\ 2 * token.volume.h24 >= 3 * previous[1].volume.h24
                  evs == {k \in 1..Len(emitted') :
                             /\ emitted'[k].event = "volume_spike"
                             /\ emitted'[k].data.tokenId = token.tokenId}
              IN  /\ connectedClients # {}
                     => Cardinality(evs) = IF spike THEN 1 ELSE 0
                  /\ \A s \in Room(token.tokenId) :
                        (\E k \in evs : s \in Receivers(emitted'[k])) <=> spike
                  /\ \A k \in evs :
                        /\ emitted'[k].to = <<"token", token.tokenId>>
                        /\ emitted'[k].data.percentageIncrease * previous[1].volume.h24
                           = (token.volume.h24 - previous[1].volume.h24) * 100]_vars

\* ------------------------------------------------------------------------
\* C30: a broadcast to connected clients emits, last, one heartbeat to all of
\* them with the number of records of the batch and the number of connected
\* clients; before it one price_updates event to all when a record's price
\* differs from its previous record's, and none otherwise; and every event
\* to a room of an address comes before both.
C30_HeartbeatLastAfterAggregate ==
    [][\A tokens \in Batches :
        (connectedClients # {} /\ BroadcastOf(tokens))
        => LET n == Len(emitted')
               changed == \E i \in 1..Len(tokens) :
                             /\ previousTokenData[tokens[i].tokenId] # <<>>
                             /\ previousTokenData[tokens[i].tokenId][1].priceUsd
                                # tokens[i].priceUsd
               beats == {k \in 1..n : emitted'[k].event = "heartbeat"}
               aggs == {k \in 1..n : emitted'[k].event = "price_updates"}
               perAddress == {k \in 1..n : emitted'[k].to[1] = "token"}
           IN  /\ n >= 1
               /\ beats = {n}
               /\ emitted'[n].to = <<"all">>
               /\ Receivers(emitted'[n]) = connectedClients
               /\ emitted'[n].data.tokenCount = Len(tokens)
               /\ emitted'[n].data.clientCount = Cardinality(connectedClients)
               /\ Cardinality(aggs) = IF changed THEN 1 ELSE 0
               /\ \A k \in aggs : emitted'[k].to = <<"all">> /\ k < n
               /\ \A k \in perAddress : \A j \in aggs \cup beats : k < j]_vars

\* both prices of a batch of two changed: two price_update events, then the
\* one price_updates event with both, then the heartbeat counting two records
\* and two clients
C30_TwoChangesOneAggregateThenHeartbeat ==
    /\ Len(emitted) = 4
    /\ emitted[1].event = "price_update"
    /\ emitted[2].event = "price_update"
    /\ emitted[3].event = "price_updates"
    /\ Len(emitted[3].data) = 2
    /\ emitted[4].event = "heartbeat"
    /\ emitted[4].data = [tokenCount |-> 2, clientCount |-> 2]

\* ------------------------------------------------------------------------
\* C31: a socket that has connected receives its initial_data before any
\* price_update, price_updates, volume_spike, volume_spikes or heartbeat:
\* no event of a broadcast goes to a socket whose sendInitialData has not yet
\* emitted, however the broadcasts of ticks and manual triggers interleave
C31_NoBroadcastBeforeInitialData ==
    [][\A tokens \in Batches :
          BroadcastOf(tokens)
          => \A k \in 1..Len(emitted') :
                emitted'[k].event \in {"price_update", "price_updates", "volume_spike",
                                       "volume_spikes", "heartbeat"}
                => \A s \in Receivers(emitted'[k]) :
                      initialData[s] # "aggregateAllTokens"]_vars

\* ------------------------------------------------------------------------
\* C32: a price_update or volume_spike of an address goes to exactly the
\* connected sockets that are in the room of that address, and a socket is in
\* the room exactly when its last subscribe or unsubscribe naming the address
\* was a subscribe: subscribe adds the named addresses, unsubscribe takes the
\* named addresses away, neither changes another address or another socket,
\* and nothing but a subscribe puts a socket into a room
C32_PerAddressEventsFollowSubscription ==
    [][/\ \A s \in Sockets : \A tokenIds \in SUBSET BatchTokenIds \ {{}} :
            /\ Subscribe(s, tokenIds)
                  => /\ \A id \in tokenIds : id \in rooms'[s]
                     /\ \A id \in BatchTokenIds \ tokenIds :
                           id \in rooms'[s] <=> id \in rooms[s]
                     /\ \A o \in Sockets \ {s} : rooms'[o] = rooms[o]
            /\ Unsubscribe(s, tokenIds)
                  => /\ \A id \in tokenIds : id \notin rooms'[s]
                     /\ \A id \in BatchTokenIds \ tokenIds :
                           id \in rooms'[s] <=> id \in rooms[s]
                     /\ \A o \in Sockets \ {s} : rooms'[o] = rooms[o]
       /\ \A s \in Sockets : \A id \in rooms'[s] \ rooms[s] :
            \E tokenIds \in SUBSET BatchTokenIds : id \in tokenIds /\ Subscribe(s, tokenIds)
       /\ \A tokens \in Batches :
            BroadcastOf(tokens)
            => /\ rooms' = rooms
               /\ \A k \in 1..Len(emitted') :
                     emitted'[k].event \in {"price_update", "volume_spike"}
                     => /\ emitted'[k].to = <<"token", emitted'[k].data.tokenId>>
                        /\ Receivers(emitted'[k])
                              = {s \in connectedClients :
                                    emitted'[k].data.tokenId \in rooms[s]}]_vars

\* a price_update of each address was emitted while one socket had
\* unsubscribed from the first address and the other never subscribed to the
\* second: each event has one receiver
C32_EachEventToItsSubscriber ==
    /\ connectedClients = {"s1", "s2"}
    /\ rooms["s1"] = {"Aa"}
    /\ rooms["s2"] = {"Bb"}
    /\ \E k \in 1..Len(emitted) :
          /\ emitted[k].event = "price_update"
          /\ emitted[k].data.tokenId = "Aa"
          /\ Receivers(emitted[k]) = {"s1"}
    /\ \E k \in 1..Len(emitted) :
          /\ emitted[k].event = "volume_spike"
          /\ emitted[k].data.tokenId = "Aa"
          /\ Receivers(emitted[k]) = {"s1"}
    /\ \E k \in 1..Len(emitted) :
          /\ emitted[k].event = "price_update"
          /\ emitted[k].data.tokenId = "Bb"
          /\ Receivers(emitted[k]) = {"s2"}

\* ------------------------------------------------------------------------
\* C39: when every provider fetch brings the data of every known address,
\* every list an aggregateAllTokens call returns holds exactly one record of
\* each address of the CSV, also when the call started while another call
\* was between two chunks
C39_EveryListHasEveryAddressOnce ==
    \A t \in Tasks :
        task[t].op = "aggregateAllTokens" /\ task[t].pc = "done"
        => /\ Len(task[t].ret) = Len(CsvTokens)
           /\ \A i \in 1..Len(CsvTokens) :
                 \E j \in 1..Len(task[t].ret) : task[t].ret[j].tokenId = CsvTokens[i]

C37_ActiveIffOneTimer ==
    /\ [](/\ IsActive <=> updateTask # <<>>
          /\ cronTasks = IF updateTask # <<>> THEN 1 ELSE 0)
    /\ [][/\ \A i \in Intervals : (Start(i) /\ IsActive) => UNCHANGED schedVars
          /\ (Stop /\ ~IsActive) => UNCHANGED schedVars]_vars

\* started, stopped and started again, with the initial updates of both
\* starts still under way: one task, of the second interval
C37_RestartedWithOneTimer ==
    /\ IsActive
    /\ cronTasks = 1
    /\ updateTask = <<[every |-> 1, field |-> "minute"]>>
    /\ \A u \in UpdateIds :
          updates[u].origin = "initial" /\ updates[u].pc = "aggregateAllTokens"

\* ------------------------------------------------------------------------
\* C36: the record mergeTokenData returns takes DexScreener's part from the
\* pair whose 24 h volume no pair exceeds and no earlier pair equals: alone
\* when GeckoTerminal gave nothing, averaged with GeckoTerminal's price and
\* 24 h volume otherwise.
C36_HighestVolumePairFirstOfTies ==
    mergeResult # <<>>
    => LET pairs == mergeArgs.dexScreenerPairs
           merged == mergeResult[1]
       IN  \A i \in 1..Len(pairs) :
              (/\ \A j \in 1..Len(pairs) :
                     OrZero(pairs[j].volume.h24) <= OrZero(pairs[i].volume.h24)
               /\ \A j \in 1..(i - 1) :
                     OrZero(pairs[j].volume.h24) < OrZero(pairs[i].volume.h24))
              => IF mergeArgs.geckoTerminalData = <<>>
                 THEN /\ merged.priceUsd = OrZero(pairs[i].priceUsd)
                      /\ merged.volume.h1 = OrZero(pairs[i].volume.h1)
                      /\ merged.volume.h6 = OrZero(pairs[i].volume.h6)
                      /\ merged.volume.h24 = OrZero(pairs[i].volume.h24)
                 ELSE /\ 2 * merged.priceUsd
                         = OrZero(pairs[i].priceUsd)
                           + OrZero(mergeArgs.geckoTerminalData[1].price_usd)
                      /\ 2 * merged.volume.h24
                         = OrZero(pairs[i].volume.h24)
                           + OrZero(mergeArgs.geckoTerminalData[1].volume_usd.h24)

\* two pairs of the same 24 h volume and of different prices, and nothing
\* from GeckoTerminal: the record has the price of the first
C36_TieTakesFirstPair ==
    /\ mergeResult # <<>>
    /\ mergeArgs.geckoTerminalData = <<>>
    /\ Len(mergeArgs.dexScreenerPairs) = 2
    /\ mergeArgs.dexScreenerPairs[1].priceUsd = <<8>>
    /\ mergeArgs.dexScreenerPairs[2].priceUsd = <<2>>
    /\ mergeArgs.dexScreenerPairs[1].volume.h24 = mergeArgs.dexScreenerPairs[2].volume.h24
    /\ mergeResult[1].priceUsd = 8

\* ------------------------------------------------------------------------
\* C34: a provider's window is reset (requestCount = 0, resetTime = now +
\* 60 s) once per window boundary: a caller that wakes from the sleep of
\* checkRateLimit resets it only if no other caller has reset it since the
\* boundary, that is, only if now >= resetTime still holds.
C34_ResetOncePerBoundary ==
    [][\A c \in Calls : RateWake(c) => WindowPassed(prov[c])]_vars

\* ------------------------------------------------------------------------
\* C35: when the broadcast of an update has run, whether a client was
\* connected or not, the Map holds for each address of the batch the record
\* of that batch.
C35_LastSeenIsLastBatch ==
    [][\A u \in UpdateIds :
        UpdateBroadcast(u, FALSE)
        => \A i \in 1..Len(updates[u].tokens) :
              previousTokenData'[updates[u].tokens[i].tokenId]
              = <<updates[u].tokens[i]>>]_vars

\* ------------------------------------------------------------------------
\* C33: a Redis command that fails does not fail the request. A failed read
\* counts as a miss: aggregateToken goes on to fetch a CSV token, and
\* aggregateAllTokens goes on to its scan and puts the address among those to
\* fetch. A failed write is passed over: aggregateToken returns the record it
\* merged, and aggregateAllTokens keeps the record in its results and returns
\* them.
C33_RedisFailureIsMiss ==
    [][\A t \in Tasks :
        /\ (TokenCacheChecked(t, FALSE) /\ CsvGetToken(task[t].addr) # <<>>)
           => task'[t].pc = "token.fetch"
        /\ TokenStored(t, FALSE)
           => /\ task'[t].pc = "done"
              /\ task'[t].ret = task[t].data
              /\ task'[t].ret # <<>>
        /\ AllListChecked(t, FALSE)
           => task'[t].pc = "all.getToken"
        /\ AllTokenChecked(t, FALSE)
           => /\ task'[t].uncached = Append(task[t].uncached, CsvTokens[task[t].idx])
              /\ task'[t].results = task[t].results
              /\ task'[t].pc \in {"all.getToken", "all.fetch"}
        /\ AllTokenStored(t, FALSE)
           => /\ task'[t].results
                 = Append(task[t].results, MergeEntry(task[t].raw[task[t].pos]))
              /\ task'[t].pc \in {"all.setToken", "all.delay", "all.setAggregated"}
        /\ AllListStored(t, FALSE)
           => /\ task'[t].results = task[t].results
              /\ task'[t].pc \in {"all.fetch", "all.finalSet"}
        /\ AllFinalStored(t, FALSE)
           => /\ task'[t].pc = "done"
              /\ task'[t].ret = task[t].results]_vars

\* an aggregateToken, alone, has fetched and returned a record that Redis
\* does not hold: its write failed
C33_ReturnedThoughWriteFailed ==
    \E t \in Tasks :
        /\ \A u \in Tasks \ {t} : task[u].pc = "idle"
        /\ task[t].op = "aggregateToken"
        /\ task[t].pc = "done"
        /\ task[t].raw # <<>>
        /\ task[t].ret # <<>>
        /\ redisToken[task[t].addr] = <<>>

====
